---------------------------- MODULE Spec2Model ----------------------------
(***************************************************************************)
(* Dialogue Supervisor (PersonaSupervisor.handle) of the Restbiz assistant *)
(* with the two persona strategies it dispatches to, modelled as a state   *)
(* machine over one ConversationState.                                     *)
(*                                                                         *)
(* Text is a sequence of tokens.  A token stands for a run of characters   *)
(* of the Thai/English utterance (its transliteration is the token name),  *)
(* so that "x in t" of the source is "x is an infix of t" here and a       *)
(* string concatenation is a sequence concatenation.                       *)
(***************************************************************************)
EXTENDS Integers, Sequences, FiniteSets, TLC

(***************************************************************************)
(* Bounds of the model                                                     *)
(***************************************************************************)
\* number of handle() calls made on the session
MaxTurns == 1
\* number of times the practical strategy's model may answer "retrieve"
\* in a row inside one handle() call
MaxRedispatch == 1

(***************************************************************************)
(* Generic helpers                                                         *)
(***************************************************************************)
IsInfix(p, t) ==
    /\ Len(p) > 0
    /\ Len(p) <= Len(t)
    /\ \E i \in 0..(Len(t) - Len(p)) : SubSeq(t, i + 1, i + Len(p)) = p

HasAny(vocab, t) == \E p \in vocab : IsInfix(p, t)

IsPrefix(p, t) == Len(p) <= Len(t) /\ SubSeq(t, 1, Len(p)) = p

RECURSIVE SumLen(_, _)
SumLen(len, t) == IF t = <<>> THEN 0 ELSE len[Head(t)] + SumLen(len, Tail(t))

Range(s) == {s[i] : i \in DOMAIN s}

\* dict helpers: a context is a function from the keys present to values
EmptyCtx == [k \in {} |-> TRUE]
Has(c, k) == k \in DOMAIN c
Get(c, k, d) == IF k \in DOMAIN c THEN c[k] ELSE d
Put(c, k, v) == (k :> v) @@ c
Pop(c, k) == [x \in (DOMAIN c) \ {k} |-> c[x]] @@ EmptyCtx
\* ctx.get(k) used as a truth value
Truthy(c, k) == Has(c, k) /\ c[k] = TRUE

(***************************************************************************)
(* Tokens and the utterances a user may type                               *)
(***************************************************************************)
\* number of characters (code points) of each token
TokLen ==
    [ sawasdee |-> 6,      \* สวัสดี
      laugh555 |-> 3,      \* 555
      kho |-> 2,           \* ขอ
      bkhun |-> 4,         \* บคุณ   (ขอ + บคุณ = ขอบคุณ)
      khrap |-> 4,         \* ครับ
      dai |-> 3,           \* ได้
      loei |-> 3,          \* เลย
      yokloek |-> 6,       \* ยกเลิก
      mai |-> 3,           \* ไม่
      ao |-> 3,            \* เอา
      plian |-> 7,         \* เปลี่ยน
      mode |-> 4,          \* โหมด
      baeb |-> 3,          \* แบบ
      laiat |-> 7,         \* ละเอียด
      noi |-> 5,           \* หน่อย
      san |-> 4,           \* สั้น
      tonni |-> 6,         \* ตอนนี้
      yu |-> 4,            \* อยู่
      arai |-> 4,          \* อะไร
      khuenthabian |-> 11, \* ขึ้นทะเบียน
      naichang |-> 7,      \* นายจ้าง
      tong |-> 4,          \* ต้อง
      tham |-> 2,          \* ทำ
      yangngai |-> 5,      \* ยังไง
      khathamniam |-> 12,  \* ค่าธรรมเนียม
      thaorai |-> 6,       \* เท่าไร
      laugh55 |-> 2,       \* 55    (555 after _normalize_for_intent)
      haha16 |-> 16,       \* hahahahahahahaha
      d1 |-> 1,            \* 1
      d2 |-> 1,            \* 2
      d3 |-> 1,            \* 3
      d4 |-> 1,            \* 4
      d5 |-> 1,            \* 5
      d9 |-> 1,            \* 9
      comma |-> 1,         \* ,
      thangmot |-> 7,      \* ทั้งหมด
      \* topic labels of the retriever's documents
      l_sso |-> 19,        \* สำนักงานประกันสังคม
      l_employer |-> 18,   \* ขึ้นทะเบียนนายจ้าง
      l_revenue |-> 10,    \* กรมสรรพากร
      l_pp20 |-> 5,        \* ภพ.20
      l_agency |-> 16,     \* หน่วยงานตัวอย่าง
      l_general |-> 12,    \* หัวข้อทั่วไป
      \* the fallback topic labels
      b_vat |-> 17, b_invoice |-> 24, b_license |-> 23, b_sanitation |-> 27,
      b_dbd |-> 22, b_sso |-> 29, b_fund |-> 15, b_docs |-> 16, b_fee |-> 12,
      b_steps |-> 19,
      \* the options of a question of the practical model
      opt_a |-> 8, opt_b |-> 8,
      \* the input of the practical strategy's call to itself
      __auto_post_retrieve__ |-> 22 ]

\* tokens made of characters of the class [\d\s,/-] only, with their digits
TokDigits ==
    [ d1 |-> <<1>>, d2 |-> <<2>>, d3 |-> <<3>>, d4 |-> <<4>>, d5 |-> <<5>>,
      d9 |-> <<9>>, comma |-> << >>,
      laugh555 |-> <<5, 5, 5>>, laugh55 |-> <<5, 5>> ]
IsDigitTok(x) == x \in DOMAIN TokDigits
\* tokens that end with digits after a character that is not of a word
TokTailDigits == [ l_pp20 |-> <<2, 0>> ]
\* tokens made of the letters a-z only
LatinTokens == {"haha16"}
\* tokens made only of characters of the class [อ-ฮะ-์]
ThaiNoiseTokens == {"oe"}                           \* เออ

U_blank   == <<>>                                   \* ""
U_greet   == <<"sawasdee">>                         \* สวัสดี
U_laugh   == <<"laugh555">>                         \* 555
U_thanks  == <<"kho", "bkhun">>                     \* ขอบคุณ
U_filler  == <<"khrap">>                            \* ครับ
U_yes     == <<"dai", "loei">>                      \* ได้เลย
U_no      == <<"yokloek">>                          \* ยกเลิก
U_noise   == <<"haha16">>                           \* hahahahahahahaha
U_switch  == <<"plian", "mode">>                    \* เปลี่ยนโหมด
U_long    == <<"kho", "baeb", "laiat", "noi">>      \* ขอแบบละเอียดหน่อย
U_short   == <<"kho", "baeb", "san">>               \* ขอแบบสั้น
U_status  == <<"tonni", "yu", "mode", "arai">>      \* ตอนนี้อยู่โหมดอะไร
U_legal   == <<"khuenthabian", "naichang", "tong", "tham", "yangngai">>
                                                    \* ขึ้นทะเบียนนายจ้างต้องทำยังไง
U_1       == <<"d1">>                               \* 1
U_2       == <<"d2">>                               \* 2
U_9       == <<"d9">>                               \* 9
U_comma   == <<"comma">>                            \* ,
U_all     == <<"thangmot">>                         \* ทั้งหมด
U_how     == <<"tong", "tham", "yangngai">>         \* ต้องทำยังไง
U_fee     == <<"khathamniam", "thaorai">>           \* ค่าธรรมเนียมเท่าไร

Utterances ==
    { U_blank, U_greet, U_thanks, U_filler, U_yes, U_no, U_noise,
      U_switch, U_long, U_short, U_status, U_legal, U_1, U_9 }

\* replies that only the resolver of a pending slot reads as replies
SlotReplies == { U_comma, U_all }

\* a confirmation reply that holds a yes word and a no word
U_mixed   == <<"mai", "ao">>                        \* ไม่เอา
MixedReplies == { U_mixed }

\* a legal question that ends with the number of a form
U_feepp20 == <<"khathamniam", "l_pp20">>            \* ค่าธรรมเนียมภพ.20
NumberedQuestions == { U_feepp20 }

\* follow-up questions put to the practical persona: one with a question
\* marker and no legal signal, one short with a legal signal
FollowUps == { U_how, U_fee }

\* len(text)
CharLen(t) == SumLen(TokLen, t)


(***************************************************************************)
(* Text normalisation                                                      *)
(***************************************************************************)
\* _normalize_for_intent: strip, lower, fold punctuation and white space,
\* collapse a character repeated 3 times or more to 2 occurrences
NormTok(x) == IF x = "laugh555" THEN "laugh55" ELSE x
NormalizeForIntent(t) == [i \in DOMAIN t |-> NormTok(t[i])]

\* _normalize_confirm_text: the above, then every character that is neither a
\* word character, Thai nor white space becomes a blank
NormalizeConfirmText(t) == NormalizeForIntent(t)

(***************************************************************************)
(* Vocabularies and patterns of the deterministic detectors                *)
(***************************************************************************)
YES_CORE ==
    { <<"chai">>, <<"chaai">>, <<"chai_typo1">>, <<"chai_typo2">>,
      <<"yuenyan">>, <<"khonfoem">>, <<"confirm">>,
      <<"thuktong">>, <<"oke">>, <<"toklong">>,
      <<"dai">>, <<"dai", "loei">>,
      <<"ao">>, <<"ao", "loei">>, <<"chat", "pai">>, <<"pai", "loei">>,
      <<"yes">>, <<"yeah">>, <<"yep">>, <<"yup">>, <<"ok">>, <<"ok", "ay">>,
      <<"yes_th">>, <<"yep_th">>, <<"yep_th2">>,
      <<"ngap">>, <<"khaap">>, <<"khap_slang">>, <<"oe">>, <<"ue">>, <<"uem">> }

NO_CORE ==
    { <<"mai">>, <<"mai", "ao">>, <<"mai", "tong">>, <<"yang", "mai">>,
      <<"yokloek">>, <<"changman">>,
      <<"no">>, <<"no", "pe">>, <<"cancel">>,
      <<"mai", "plian">>, <<"mai", "salap">> }

\* {"ครับ", "คับ", "ค่ะ", "คะ"}
FillerOnly == { <<"khrap">>, <<"khap">>, <<"kha_f">>, <<"kha">> }

SWITCH_VERBS ==
    { <<"plian">>, <<"salap">>, <<"prap">>, <<"kho", "plian">>,
      <<"kho", "salap">>, <<"kho", "prap">>, <<"change">>, <<"pai">> }
SWITCH_MARKERS ==
    { <<"mode">>, <<"mode_en">>, <<"persona">>, <<"bukkhalik">>,
      <<"bot_th">>, <<"bot">>, <<"tua">> }
\* \b(academic|practical)\b|วิชาการ|ละเอียด|สั้น|กระชับ
SwitchTargetWords ==
    { <<"academic">>, <<"practical">>, <<"wichakan">>, <<"laiat">>,
      <<"san">>, <<"krachap">> }
\* (เปลี่ยน|สลับ|ปรับ)\s*
BareSwitchVerbs == { <<"plian">>, <<"salap">>, <<"prap">> }

TARGET_ACADEMIC_HINTS ==
    { <<"laiat">>, <<"choengluek">>, <<"wichakan">>, <<"tamkotmai">>,
      <<"angingkhokotmai">>, <<"athibai", "laiat">>, <<"kho", "baeb", "laiat">>,
      <<"laiat", "thangmot">>, <<"kho", "baeb", "laiat", "thangmot">>,
      <<"ao", "baeb", "laiat", "thangmot">>, <<"khayaikhwam">>,
      <<"long", "rai", "laiat">>, <<"laiat", "khuen">> }
TARGET_PRACTICAL_HINTS ==
    { <<"san">>, <<"san", "repeat">>, <<"krachap">>, <<"sarup">>,
      <<"sarup", "san">>, <<"ao", "baeb", "san">>, <<"ao", "baeb", "sarup">>,
      <<"checklist">>, <<"penkhokho">>, <<"reoreo">> }

\* _STYLE_LIKELY_RE
StyleLikelyWords ==
    { <<"kho">>, <<"chuai">>, <<"ropkuan">>, <<"ao">>, <<"yakdai">>,
      <<"kho", "hai">>, <<"chuai", "athibai">>, <<"khayaikhwam">>,
      <<"long", "rai", "laiat">>, <<"laiat", "khuen">>, <<"choengluek">>,
      <<"sarup">>, <<"san", "repeat">>, <<"krachap">> }

\* _SMALLTALK_RE
SmalltalkWords ==
    { <<"tham", "arai", "yu">>, <<"tham", "rai", "yu">>, <<"wang", "maiq">>,
      <<"yu", "maiq">>, <<"pen", "ngai", "bang">>, <<"pen", "ngai">>,
      <<"kinkhaoyang">>, <<"sabaidee", "maiq">>, <<"sabaidee", "pa">>,
      <<"oke", "maiq">>, <<"nueai", "maiq">> }

\* _THANKS_RE = (ขอบคุณ|ขอบใจ|thx|thanks)\b
ThanksWords == { <<"kho", "bkhun">>, <<"kho", "bchai">>, <<"thx">>, <<"thanks">> }

\* _QUESTION_MARKERS_RE
QuestionMarkers ==
    { <<"qmark">>, <<"maiq">>, <<"ruemai">>, <<"rueplao">>, <<"yangngai">>,
      <<"tham", "ngai">>, <<"yangrai">>, <<"dai", "maiq">>, <<"khuan">>,
      <<"tong">>, <<"khue", "arai">> }

\* _LEGAL_SIGNAL_RE
LegalSignals ==
    { <<"baianuyat">>, <<"chotthabian">>, <<"thabianphanit">>, <<"phasi">>,
      <<"vat">>, <<"phophor20">>, <<"sanphakon">>, <<"thetsaban">>,
      <<"samnakngankhet">>, <<"sukhaphiban">>, <<"krom">>, <<"khathamniam">>,
      <<"ekkasan">>, <<"khantorn">>, <<"botlongthot">>, <<"prakat">>,
      <<"phorobo">>, <<"prakansangkhom">>, <<"kongthun">>, <<"poetran">>,
      <<"khuenthabian">> }

\* _MODE_STATUS_Q, first alternative: a lead word, anything, then a mode word
ModeStatusLeads ==
    { <<"tonni">>, <<"tonni", "rao">>, <<"tonni", "bot_th">>,
      <<"bot_th", "tonni">>, <<"yu">>, <<"pen">> }
ModeWords == { <<"mode">>, <<"mode_en">>, <<"persona">>, <<"bukkhalik">> }
\* second alternative: ^(mode word)\s*(tail)?\s*\??$
ModeStatusTails ==
    { <<"arai">>, <<"nai">>, <<"rai">>, <<"yang_isan">>, <<"nai", "a">>,
      <<"nai", "khrap">>, <<"nai", "kha">> }

(***************************************************************************)
(* Deterministic detectors                                                 *)
(***************************************************************************)
IsSuffix(p, t) == Len(p) <= Len(t) /\ SubSeq(t, Len(t) - Len(p) + 1, Len(t)) = p

\* _TH_LAUGH_5_RE = ^\s*5{3,}\s*$
ThLaugh5(t) == t = <<"laugh555">>

\* _LIKELY_SELECTION_RE = ^\s*[\d\s,/-]+\s*$
LikelySelection(t) == t # <<>> /\ \A i \in DOMAIN t : IsDigitTok(t[i])

\* the digits of a text made of digit tokens
RECURSIVE DigitsOf(_)
DigitsOf(t) == IF t = <<>> THEN <<>> ELSE TokDigits[Head(t)] \o DigitsOf(Tail(t))

RECURSIVE DecimalValue(_)
DecimalValue(ds) ==
    IF ds = <<>> THEN 0 ELSE 10 * DecimalValue(SubSeq(ds, 1, Len(ds) - 1)) + ds[Len(ds)]

\* _ANY_NUMBER_RE = \b(\d{1,2})\b : the numbers it finds, in order.  A digit
\* run next to a letter has no word boundary; the utterances of the model that
\* hold digits are one run of digits, or end with a token whose digits follow
\* a full stop.
AnyNumbers(t) ==
    IF LikelySelection(t) /\ Len(DigitsOf(t)) \in 1..2
    THEN << DecimalValue(DigitsOf(t)) >>
    ELSE IF /\ t # << >>
            /\ t[Len(t)] \in DOMAIN TokTailDigits
            /\ Len(TokTailDigits[t[Len(t)]]) \in 1..2
    THEN << DecimalValue(TokTailDigits[t[Len(t)]]) >>
    ELSE << >>

\* _THANKS_RE: a thanks word followed by a word boundary, which between
\* tokens of letters is the end of the text only
ThanksMatch(t) == \E p \in ThanksWords : IsSuffix(p, t)

\* _NOISE_ONLY_RE = ^(?:[อ-ฮะ-์]+|[a-z]+|[!?.]+)$
NoiseOnly(t) ==
    /\ t # <<>>
    /\ \/ \A i \in DOMAIN t : t[i] \in ThaiNoiseTokens
       \/ \A i \in DOMAIN t : t[i] \in LatinTokens

\* _TH_SAWASDEE_FUZZY_RE / _TH_WATDEE_RE / _EN_GREETING_RE / _EN_GOOD_TIME_RE /
\* _TH_DEE_RE, all anchored at the start of the text
GreetingPrefixes ==
    { <<"sawasdee">>, <<"watdee">>, <<"hi">>, <<"hello">>, <<"hey">>, <<"yo">>,
      <<"good", "morning">>, <<"dee">> }
GreetingPrefixMatch(t) == \E p \in GreetingPrefixes : IsPrefix(p, t)

\* PersonaSupervisor._looks_like_greeting_or_thanks
LooksLikeGreetingOrThanks(raw) ==
    LET t == NormalizeForIntent(raw) IN
    IF raw = <<>> THEN TRUE
    ELSE IF ThLaugh5(raw) THEN TRUE
    ELSE IF LikelySelection(raw) THEN FALSE
    ELSE IF ThanksMatch(t) THEN TRUE
    ELSE IF CharLen(t) <= 2 THEN TRUE
    ELSE IF HasAny(QuestionMarkers, t) THEN FALSE
    ELSE IF HasAny(LegalSignals, t) THEN FALSE
    ELSE IF GreetingPrefixMatch(t) THEN TRUE
    ELSE IF CharLen(t) <= 14 /\ NoiseOnly(t) THEN TRUE
    ELSE FALSE

\* PersonaSupervisor._looks_like_legal_question
LooksLikeLegalQuestion(s) ==
    LET t == NormalizeForIntent(s) IN
    IF t = <<>> THEN FALSE
    ELSE IF HasAny(LegalSignals, t) THEN TRUE
    ELSE IF HasAny(QuestionMarkers, t) /\ CharLen(t) >= 6 THEN TRUE
    ELSE FALSE

\* PersonaSupervisor._is_noise
IsNoise(t) ==
    IF t = <<>> THEN FALSE
    ELSE IF ThLaugh5(t) THEN TRUE
    ELSE IF LikelySelection(t) THEN FALSE
    ELSE IF CharLen(t) <= 2 THEN TRUE
    ELSE IF NoiseOnly(t) /\ ~LooksLikeLegalQuestion(t) THEN TRUE
    ELSE FALSE

\* _MODE_STATUS_Q.search
ModeStatusQ(t) ==
    \/ \E l \in ModeStatusLeads, m \in ModeWords :
         \E i \in 1..Len(t), j \in 1..Len(t) :
            /\ i + Len(l) - 1 <= Len(t)
            /\ SubSeq(t, i, i + Len(l) - 1) = l
            /\ j >= i + Len(l)
            /\ j + Len(m) - 1 <= Len(t)
            /\ SubSeq(t, j, j + Len(m) - 1) = m
    \/ \E m \in ModeWords :
         \/ t = m
         \/ \E x \in ModeStatusTails : t = m \o x

\* PersonaSupervisor._looks_like_mode_status_query
LooksLikeModeStatusQuery(t) ==
    IF t = <<>> THEN FALSE
    ELSE IF ~HasAny(ModeWords, t) THEN FALSE
    ELSE ModeStatusQ(t)

\* PersonaSupervisor._looks_like_switch_without_target
LooksLikeSwitchWithoutTarget(t) ==
    IF t = <<>> THEN FALSE
    ELSE IF /\ HasAny(SWITCH_VERBS, t)
            /\ HasAny(SWITCH_MARKERS, t)
            /\ ~HasAny(SwitchTargetWords, t) THEN TRUE
    ELSE IF t \in BareSwitchVerbs THEN TRUE
    ELSE FALSE

\* PersonaSupervisor._infer_user_style_request_det
InferUserStyleRequestDet(s) ==
    LET t == NormalizeForIntent(s)
        wants_short == HasAny(TARGET_PRACTICAL_HINTS, t)
        wants_long  == HasAny(TARGET_ACADEMIC_HINTS, t)
    IN  IF t = <<>> THEN [wants_short |-> FALSE, wants_long |-> FALSE]
        ELSE IF wants_short /\ wants_long
             THEN [wants_short |-> FALSE, wants_long |-> FALSE]
        ELSE [wants_short |-> wants_short, wants_long |-> wants_long]

\* _STYLE_LIKELY_RE.search
StyleLikely(t) == HasAny(StyleLikelyWords, t)

(***************************************************************************)
(* The session state handle() works on                                     *)
(***************************************************************************)
\* ConversationState.last_retrieval_query = None
NoQuery == <<"__none__">>

\* A state value st is a record of the ConversationState fields
\*   persona_id, messages, ctx, current_docs, last_retrieval_query, round,
\*   last_action
\* and of the collaborators' call logs of the running handle() call
\*   queries    the queries retriever.invoke received
\*   llm        the classifier/strategy model calls made
\*   strategy   the strategy invocations [persona, input, force_intake]
\*   at_dispatch  what each strategy invocation found: whether a pending_slot
\*              was in the context, and the number of searches made so far
\*   menus      the number of topic menus composed
\* and of
\*   force_empty  SpyRetriever.force_empty: the retriever finds nothing
\*   faults     the collaborators that misbehave: "search" (retriever.invoke
\*              raises), "model" (the practical model answers "retrieve"
\*              whenever it is asked)
\* and of the way the running call ends
\*   outcome    "returned", "raised" (an exception left handle()) or
\*              "recursing" (the strategy is still calling itself)
\*   frozen     the state at the point where the call stopped returning
FreshState(pid, empty) ==
    [ persona_id |-> pid,
      force_empty |-> empty,
      messages |-> << >>,
      ctx |-> EmptyCtx,
      current_docs |-> << >>,
      last_retrieval_query |-> NoQuery,
      round |-> 0,
      last_action |-> "none",
      queries |-> << >>,
      llm |-> << >>,
      strategy |-> << >>,
      at_dispatch |-> << >>,
      menus |-> 0,
      faults |-> {},
      outcome |-> "returned",
      frozen |-> << >> ]

\* retriever.invoke raises in this session
SearchDown(st) == "search" \in st.faults

\* the call stops returning here: what it has done to the state so far
\* stays, what the model computes after this point is not seen
Freeze(st, how) ==
    IF st.frozen # << >> THEN st
    ELSE [st EXCEPT !.frozen = << st >>, !.outcome = how]

CtxPut(st, k, v) == [st EXCEPT !.ctx = Put(st.ctx, k, v)]
CtxPop(st, k) == [st EXCEPT !.ctx = Pop(st.ctx, k)]

RECURSIVE CtxPopAll(_, _)
CtxPopAll(st, ks) ==
    IF ks = <<>> THEN st ELSE CtxPopAll(CtxPop(st, Head(ks)), Tail(ks))

\* _DUAL_ENDING_RE / _FEMALE_ENDING_TOKEN_RE: "ครับ/ค่ะ" and a free-standing
\* "ค่ะ" become "ครับ"
NormalizeMale(text) ==
    [i \in DOMAIN text |->
        IF text[i] \in {"dual_ending", "kha_f_alone"} THEN "khrap" ELSE text[i]]

\* PersonaSupervisor._add_user
AddUser(st, text) ==
    IF text = <<>> THEN st
    ELSE IF /\ st.messages # <<>>
            /\ st.messages[Len(st.messages)].role = "user"
            /\ st.messages[Len(st.messages)].content = text THEN st
    ELSE [st EXCEPT !.messages = Append(@, [role |-> "user", content |-> text])]

\* _add_assistant with the duplicate test on the role alone: an assistant
\* entry at the end of the history is replaced
AddAssistantOverLast(st, text) ==
    IF text = <<>> THEN st
    ELSE IF /\ st.messages # <<>>
            /\ st.messages[Len(st.messages)].role = "assistant"
         THEN [st EXCEPT !.messages[Len(st.messages)] =
                            [role |-> "assistant", content |-> text]]
    ELSE [st EXCEPT !.messages = Append(@, [role |-> "assistant", content |-> text])]

\* PersonaSupervisor._add_assistant (and the strategies' _append_assistant)
AddAssistant(st, text) ==
    IF text = <<>> THEN st
    ELSE IF /\ st.messages # <<>>
            /\ st.messages[Len(st.messages)].role = "assistant"
            /\ st.messages[Len(st.messages)].content = text THEN st
    ELSE [st EXCEPT !.messages = Append(@, [role |-> "assistant", content |-> text])]

\* PersonaSupervisor._sync_persona_and_profile: persona_id is already one of
\* the two normalized ids; the profile written is the persona's baseline
SyncPersonaAndProfile(st) ==
    LET c1 == Put(st.ctx, "persona_id", st.persona_id)
    IN  [st EXCEPT !.ctx = Put(c1, "persona_profile", st.persona_id)]

\* the lock stages without the section stage
LockStagesSlotsOnly == {"awaiting_slots"}

\* _ACADEMIC_LOCK_STAGES
ACADEMIC_LOCK_STAGES == {"awaiting_slots", "awaiting_sections"}

\* context["academic_flow"]["stage"], "" when there is no flow
FlowStage(st) == Get(st.ctx, "academic_flow", "")

\* PersonaSupervisor._is_academic_intake_active
IsAcademicIntakeActive(st) == FlowStage(st) \in ACADEMIC_LOCK_STAGES

(***************************************************************************)
(* Search collaborator (the keyword-routed retriever of the test suite)    *)
(***************************************************************************)
DocSSO ==
    [ content |-> "c_sso",
      metadata |-> [ department |-> "l_sso", license_type |-> "l_employer",
                     operation_steps |-> "v_steps", fees |-> "v_nofee",
                     service_channel |-> "v_channel" ] ]
DocVAT ==
    [ content |-> "c_vat",
      metadata |-> [ department |-> "l_revenue", license_type |-> "l_pp20",
                     fees |-> "v_nofee", service_channel |-> "v_channel" ] ]
DocGeneric ==
    [ content |-> "c_generic",
      metadata |-> [ department |-> "l_agency", license_type |-> "l_general" ] ]

\* tokens holding ประกันสังคม|กองทุน|ขึ้นทะเบียน|นายจ้าง
SSOTokens ==
    { "prakansangkhom", "kongthun", "khuenthabian", "naichang",
      "l_employer", "l_sso", "b_sso", "b_fund" }
\* tokens holding vat|ภพ.20|ภาษี
VATTokens == { "vat", "phophor20", "phasi", "l_pp20", "b_vat", "b_invoice" }

\* SpyRetriever.invoke
RetrieverAnswer(empty, q) ==
    IF empty THEN << >>
    ELSE IF \E i \in DOMAIN q : q[i] \in SSOTokens THEN << DocSSO >>
    ELSE IF \E i \in DOMAIN q : q[i] \in VATTokens THEN << DocVAT >>
    ELSE << DocGeneric >>

\* retriever.invoke(q) as seen from a state: the call is logged
LogQuery(st, q) == [st EXCEPT !.queries = Append(@, q)]

\* conf.RETRIEVAL_TOP_K
RETRIEVAL_TOP_K == 20

\* the results list built from the documents returned
TopKResults(docs) == SubSeq(docs, 1, IF Len(docs) < RETRIEVAL_TOP_K THEN Len(docs) ELSE RETRIEVAL_TOP_K)

(***************************************************************************)
(* Topic Menu Composer                                                     *)
(***************************************************************************)

\* _MENU_SIZE, _POOL_MAX
MENU_SIZE == 5
POOL_MAX == 80

\* labels _sanitize_topic_label rejects (blank, "-", "N/A", shorter than 3 or
\* longer than 64 characters, holding a line break)
InvalidLabels == { "", "dash", "na", "ab", "multi_line", "too_long" }
SanitizeTopicLabel(l) == IF l \in InvalidLabels THEN "" ELSE l

\* labels matching _ORGISH_RE = ^(กรม|สำนักงาน|...)\b : the organisation
\* word must be followed by a non-word character
OrgishLabels == { "l_krom_spaced" }

\* PersonaSupervisor._topic_kind_weight
TopicKindWeight(label, k) ==
    IF k \in {"license_type", "th_license"} THEN 5
    ELSE IF k \in {"operation_topic", "th_subtopic", "operation_subtopic",
                   "sub_operation_topic", "operation_topic_sub", "subtopic"} THEN 4
    ELSE IF k \in {"operation_by_department", "operation_action",
                   "th_op_by_dept_spaced", "th_op_by_dept", "action_by_department",
                   "operation_process"} THEN 4
    ELSE IF k \in {"department", "th_department"}
         THEN (IF label \in OrgishLabels THEN 1 ELSE 2)
    ELSE 2

\* LICENSE_KEYS, OP_BY_DEPT_KEYS, OP_SUB_KEYS, OP_TOPIC_KEYS, DEPT_KEYS in the
\* order _collect_topic_freq_from_docs reads them
TopicKeys ==
    << "license_type", "th_license",
       "operation_by_department", "operation_action", "action_by_department",
       "operation_process", "th_op_by_dept_spaced", "th_op_by_dept",
       "operation_subtopic", "sub_operation_topic", "operation_topic_sub",
       "subtopic", "th_subtopic",
       "operation_topic", "th_subtopic",
       "department", "th_department" >>

\* the _add calls made for one document, key after key
RECURSIVE AddDocKeys(_, _, _)
AddDocKeys(freq, md, keys) ==
    IF keys = <<>> THEN freq
    ELSE LET k == Head(keys)
             s == IF k \in DOMAIN md THEN SanitizeTopicLabel(md[k]) ELSE ""
         IN  IF s = "" THEN AddDocKeys(freq, md, Tail(keys))
             ELSE IF s \in DOMAIN freq
             THEN AddDocKeys([freq EXCEPT ![s] = @ + TopicKindWeight(s, k)], md, Tail(keys))
             ELSE AddDocKeys(Put(freq, s, TopicKindWeight(s, k)), md, Tail(keys))

\* PersonaSupervisor._collect_topic_freq_from_docs
RECURSIVE CollectTopicFreqInto(_, _)
CollectTopicFreqInto(freq, docs) ==
    IF docs = <<>> THEN freq
    ELSE CollectTopicFreqInto(AddDocKeys(freq, Head(docs).metadata, TopicKeys), Tail(docs))

CollectTopicFreqFromDocs(docs) == CollectTopicFreqInto(EmptyCtx, docs)

\* the labels in string order
LabelOrder == << "l_revenue", "l_employer", "l_pp20", "l_sso", "l_agency", "l_general" >>
LabelRank(l) == CHOOSE i \in DOMAIN LabelOrder : LabelOrder[i] = l

\* sorted(freq.items(), key=lambda x: (-x[1], x[0]))
ItemBefore(freq, a, b) ==
    \/ freq[a] > freq[b]
    \/ freq[a] = freq[b] /\ LabelRank(a) <= LabelRank(b)

RECURSIVE SortedItemsOf(_, _)
SortedItemsOf(freq, labels) ==
    IF labels = {} THEN << >>
    ELSE LET first == CHOOSE a \in labels : \A b \in labels : ItemBefore(freq, a, b)
         IN  << <<first, freq[first]>> >> \o SortedItemsOf(freq, labels \ {first})

SortedItems(freq) == SortedItemsOf(freq, DOMAIN freq)

\* the broad seed queries of _build_topic_pool_from_corpus
SeedQueries ==
    << <<"baianuyat", "poetran", "thetsaban", "samnakngankhet", "sukhaphiban">>,
       <<"phasi", "vat", "phophor20", "baikamkapphasi", "krom", "sanphakon">>,
       <<"chotthabian", "phanit", "nitibukkhon", "dbd">>,
       <<"prakansangkhom", "khuenthabian", "naichang", "lukchang", "kongthun">>,
       <<"khantorn", "ekkasan", "khathamniam", "rayawela", "chongthang">> >>

\* the hard fallback topics
BasePool ==
    << <<"b_vat", 10>>, <<"b_invoice", 9>>, <<"b_license", 9>>,
       <<"b_sanitation", 8>>, <<"b_dbd", 7>>, <<"b_sso", 7>>, <<"b_fund", 6>>,
       <<"b_docs", 6>>, <<"b_fee", 5>>, <<"b_steps", 5>> >>

\* "for k, v in freq.items(): merged[k] = merged.get(k, 0) + v"
MergeInto(merged, freq) ==
    [l \in DOMAIN merged \cup DOMAIN freq |-> Get(merged, l, 0) + Get(freq, l, 0)]
        @@ EmptyCtx

\* the loop over the seed queries: the merged frequencies
RECURSIVE MergeSeedQueries(_, _, _)
MergeSeedQueries(st, merged, qs) ==
    IF qs = <<>> THEN merged
    ELSE LET docs == RetrieverAnswer(st.force_empty \/ SearchDown(st), Head(qs))
         IN  IF docs = << >> THEN MergeSeedQueries(st, merged, Tail(qs))
             ELSE MergeSeedQueries(st, MergeInto(merged, CollectTopicFreqFromDocs(docs)),
                                   Tail(qs))

RECURSIVE LogQueries(_, _)
LogQueries(st, qs) == IF qs = <<>> THEN st ELSE LogQueries(LogQuery(st, Head(qs)), Tail(qs))

PoolLabels(pool) == [i \in DOMAIN pool |-> pool[i][1]]

RECURSIVE AppendMissing(_, _)
AppendMissing(pool, base) ==
    IF base = <<>> THEN pool
    ELSE AppendMissing(
            IF Head(base)[1] \in Range(PoolLabels(pool)) THEN pool
            ELSE Append(pool, Head(base)),
            Tail(base))

\* PersonaSupervisor._build_topic_pool_from_corpus: [st, pool]
BuildTopicPoolFromCorpus(st) ==
    LET Cut(items) ==
            SubSeq(items, 1, IF Len(items) < POOL_MAX THEN Len(items) ELSE POOL_MAX)
        Fill(cut) == IF Len(cut) < 10 THEN AppendMissing(cut, BasePool) ELSE cut
        Store(pool) ==
            [st |-> CtxPut(LogQueries(st, SeedQueries), "topic_pool", pool), pool |-> pool]
    IN  Store(Fill(Cut(SortedItems(MergeSeedQueries(st, EmptyCtx, SeedQueries)))))

\* PersonaSupervisor._get_topic_pool: [st, pool]
GetTopicPool(st) ==
    IF Has(st.ctx, "topic_pool") /\ st.ctx["topic_pool"] # << >>
    THEN [st |-> st, pool |-> st.ctx["topic_pool"]]
    ELSE BuildTopicPoolFromCorpus(st)

\* PersonaSupervisor._get_last_topic_hint (the queries of the model are
\* shorter than the 60 characters kept)
GetLastTopicHint(st) ==
    IF Get(st.ctx, "last_topic", << >>) # << >> THEN st.ctx["last_topic"]
    ELSE IF st.last_retrieval_query # NoQuery THEN st.last_retrieval_query
    ELSE << >>

\* the session seeds of the model (int(sha256(session id)[:8], 16))
Seeds == { 0, 1 }

\* random.Random(seed ^ mix(turns)): the numbers the generator yields, one
\* consumed by each rng.choices call.  Seed 0 stands for a generator that
\* repeats itself from one menu to the next, seed 1 for one that moves on.
RngStream(seed, turns) == [i \in 1..10 |-> (seed * (i + 3 * turns)) % 10]

RemoveAt(s, i) == SubSeq(s, 1, i - 1) \o SubSeq(s, i + 1, Len(s))

\* PersonaSupervisor._weighted_sample_no_replace: [chosen, rng].  Every
\* weight is at least 1, so rng.choices may return any remaining topic: the
\* one at the position the stream selects.
RECURSIVE SampleLoop(_, _, _, _)
SampleLoop(local_topics, chosen, k, rng) ==
    IF local_topics = <<>> \/ Len(chosen) >= k THEN [chosen |-> chosen, rng |-> rng]
    ELSE LET idx == (Head(rng) % Len(local_topics)) + 1
         IN  SampleLoop(RemoveAt(local_topics, idx),
                        Append(chosen, local_topics[idx]), k, Tail(rng))

WeightedSampleNoReplace(pool, k, rng) ==
    IF pool = <<>> \/ k <= 0 THEN [chosen |-> << >>, rng |-> rng]
    ELSE SampleLoop(PoolLabels(pool), << >>, k, rng)

\* PersonaSupervisor._get_session_seed: the seed is stored in
\* context["rng_seed"] once; pick is the seed the session id hashes to
GetSessionSeed(st, pick) ==
    IF Has(st.ctx, "rng_seed") THEN [st |-> st, seed |-> st.ctx["rng_seed"]]
    ELSE [st |-> CtxPut(st, "rng_seed", pick), seed |-> pick]

\* PersonaSupervisor._get_rng: [st, rng]
GetRng(st, pick) ==
    LET Seeded(gs) ==
            [st |-> gs.st, rng |-> RngStream(gs.seed, Get(gs.st.ctx, "greet_menu_turns", 0))]
    IN  Seeded(GetSessionSeed(st, pick))

\* the first `need` distinct labels of a sorted item list
RECURSIVE FirstLabels(_, _, _)
FirstLabels(items, out, need) ==
    IF items = <<>> \/ Len(out) >= need THEN out
    ELSE FirstLabels(Tail(items),
                     IF Head(items)[1] \in Range(out) THEN out
                     ELSE Append(out, Head(items)[1]),
                     need)

\* docs[:n]
FirstDocs(docs, n) == SubSeq(docs, 1, IF Len(docs) < n THEN Len(docs) ELSE n)

\* PersonaSupervisor._related_topics_from_last: [st, related]
RelatedTopicsFromLast(st, need) ==
    LET Related(last_q) ==
            IF need <= 0 \/ last_q = << >> THEN [st |-> st, related |-> << >>]
            ELSE [st |-> LogQuery(st, last_q),
                  related |-> FirstLabels(
                      SortedItems(CollectTopicFreqFromDocs(
                          FirstDocs(RetrieverAnswer(st.force_empty \/ SearchDown(st),
                                                    last_q), 16))),
                      << >>, need)]
    IN  Related(GetLastTopicHint(st))

\* "for t in ...: t2 = sanitize(t); append when new; stop at size"
RECURSIVE CombineInto(_, _, _)
CombineInto(combined, ts, size) ==
    IF ts = <<>> \/ Len(combined) >= size THEN combined
    ELSE LET t2 == SanitizeTopicLabel(Head(ts))
         IN  CombineInto(IF t2 # "" /\ t2 \notin Range(combined)
                         THEN Append(combined, t2) ELSE combined,
                         Tail(ts), size)

\* _compose_menu_topics counting on two related topics and never topping the
\* menu up from the pool
ComposeMenuTopicsNoFill(st, size, pick) ==
    LET Cut(st1, final) ==
            [ st |-> [st1 EXCEPT !.menus = @ + 1],
              topics |-> SubSeq(final, 1, IF Len(final) < size THEN Len(final) ELSE size) ]
        \* the anti-repeat guard against the last menu
        Vary(st1, last_menu, c2, pool_fresh, combined2) ==
            Cut(st1, IF /\ Len(last_menu) >= 3
                        /\ Cardinality(Range(last_menu) \cap Range(c2)) >= 4
                        /\ Len(pool_fresh) >= size
                        /\ Len(combined2) = size
                     THEN combined2 ELSE c2)
        Fill(c1, pool) == c1
        Combine(st1, pool, related, pool_fresh, s1) ==
            Vary(st1, Get(st1.ctx, "last_menu_topics", << >>),
                 Fill(CombineInto(<< >>, related \o s1.chosen, size), pool),
                 pool_fresh,
                 CombineInto(<< >>, WeightedSampleNoReplace(pool_fresh, size, s1.rng).chosen,
                             size))
        Sample(st1, pool, related, rng, pool_fresh) ==
            Combine(st1, pool, related, pool_fresh,
                    WeightedSampleNoReplace(
                        pool_fresh,
                        IF size - 2 > 0 THEN size - 2 ELSE 0,
                        rng))
        Fresh(pool, rng, rel) ==
            LET InFresh(item) == item[1] \notin Range(rel.related)
            IN  Sample(rel.st, pool, rel.related, rng, SelectSeq(pool, InFresh))
        Related(pool, gr) ==
            Fresh(pool, gr.rng, RelatedTopicsFromLast(gr.st, IF size >= 5 THEN 2 ELSE 1))
        Pool(gp) == Related(gp.pool, GetRng(gp.st, pick))
    IN  Pool(GetTopicPool(st))

\* PersonaSupervisor._compose_menu_topics: [st, topics]
ComposeMenuTopics(st, size, pick) ==
    LET Cut(st1, final) ==
            [ st |-> [st1 EXCEPT !.menus = @ + 1],
              topics |-> SubSeq(final, 1, IF Len(final) < size THEN Len(final) ELSE size) ]
        \* the anti-repeat guard against the last menu
        Vary(st1, last_menu, c2, pool_fresh, combined2) ==
            Cut(st1, IF /\ Len(last_menu) >= 3
                        /\ Cardinality(Range(last_menu) \cap Range(c2)) >= 4
                        /\ Len(pool_fresh) >= size
                        /\ Len(combined2) = size
                     THEN combined2 ELSE c2)
        Fill(c1, pool) ==
            IF Len(c1) < size THEN CombineInto(c1, PoolLabels(pool), size) ELSE c1
        Combine(st1, pool, related, pool_fresh, s1) ==
            Vary(st1, Get(st1.ctx, "last_menu_topics", << >>),
                 Fill(CombineInto(<< >>, related \o s1.chosen, size), pool),
                 pool_fresh,
                 CombineInto(<< >>, WeightedSampleNoReplace(pool_fresh, size, s1.rng).chosen,
                             size))
        Sample(st1, pool, related, rng, pool_fresh) ==
            Combine(st1, pool, related, pool_fresh,
                    WeightedSampleNoReplace(
                        pool_fresh,
                        IF size - Len(related) > 0 THEN size - Len(related) ELSE 0,
                        rng))
        Fresh(pool, rng, rel) ==
            LET InFresh(item) == item[1] \notin Range(rel.related)
            IN  Sample(rel.st, pool, rel.related, rng, SelectSeq(pool, InFresh))
        Related(pool, gr) ==
            Fresh(pool, gr.rng, RelatedTopicsFromLast(gr.st, IF size >= 5 THEN 2 ELSE 1))
        Pool(gp) == Related(gp.pool, GetRng(gp.st, pick))
    IN  Pool(GetTopicPool(st))

\* the "i)" markers of a numbered list
NumberTok == << "n1", "n2", "n3", "n4", "n5", "n6", "n7", "n8", "n9" >>

\* PersonaSupervisor._format_numbered_options: "1) a\n2) b ..."
RECURSIVE NumberedLines(_, _)
NumberedLines(opts, i) ==
    IF i > Len(opts) THEN << >>
    ELSE (IF i > 1 THEN << "nl" >> ELSE << >>)
         \o << NumberTok[i], opts[i] >> \o NumberedLines(opts, i + 1)

FormatNumberedOptions(options, max_items) ==
    LET NonBlank(x) == x # ""
        First(opts) == SubSeq(opts, 1, IF Len(opts) < max_items THEN Len(opts) ELSE max_items)
    IN  NumberedLines(First(SelectSeq(options, NonBlank)), 1)

\* what llm_greet_prefix_call may return: nothing usable, or a sentence
GreetPrefixAnswers == { "none", "sentence" }

\* PersonaSupervisor._get_prefix_llm
GetPrefixLlm(st, kind, include_intro, ans) ==
    LET prefix == IF ans = "sentence" THEN << "llm_prefix" >>
                  ELSE IF include_intro THEN << "prefix_intro" >>
                  ELSE << "prefix_ack" >>
    IN  [ st |-> [st EXCEPT !.llm = Append(@, "greet_prefix")],
          prefix |-> NormalizeMale(prefix) ]

\* PersonaSupervisor._render_greeting_with_menu: [st, msg]
RenderGreetingWithMenu(st, kind, menu_topics, include_intro, ans) ==
    LET Render(p, menu) ==
            [ st |-> p.st,
              msg |-> NormalizeMale(p.prefix \o
                          (IF menu = << >> THEN << >> ELSE << "nl" >> \o menu)) ]
    IN  Render(GetPrefixLlm(st, kind, include_intro, ans),
               FormatNumberedOptions(menu_topics, 9))

PendingTopicSlot(topics) == [key |-> "topic", options |-> topics, allow_multi |-> FALSE]

\* _handle_greeting writing the topic slot with setdefault: a slot already
\* stored is kept
HandleGreetingKeepsSlot(st, user_input, o) ==
    LET raw == user_input
        t == NormalizeForIntent(raw)
        kind == IF raw = << >> THEN "blank"
                ELSE IF ThanksMatch(t) THEN "thanks"
                ELSE IF HasAny(SmalltalkWords, raw) \/ ThLaugh5(raw) THEN "smalltalk"
                ELSE "greet"
        turns == Get(st.ctx, "greet_menu_turns", 0)
        include_intro == (turns = 0)
        Reply(r) ==
            [ st |-> [CtxPut(AddAssistant(r.st, r.msg), "greet_menu_turns", turns + 1)
                         EXCEPT !.last_action =
                             IF include_intro THEN "greeting_first_menu"
                             ELSE "greeting_with_menu_refresh"],
              reply |-> r.msg ]
        Menu(cm) ==
            Reply(RenderGreetingWithMenu(
                      CtxPut(CtxPut(IF Has(cm.st.ctx, "pending_slot") THEN cm.st
                                    ELSE CtxPut(cm.st, "pending_slot", PendingTopicSlot(cm.topics)),
                                    "main_menu_shown", TRUE),
                             "last_menu_topics", cm.topics),
                      kind, cm.topics, include_intro, o.prefix))
    IN  Menu(ComposeMenuTopics(st, MENU_SIZE, o.rng))

\* _handle_greeting introducing itself on the second menu too
HandleGreetingIntroTwice(st, user_input, o) ==
    LET raw == user_input
        t == NormalizeForIntent(raw)
        kind == IF raw = << >> THEN "blank"
                ELSE IF ThanksMatch(t) THEN "thanks"
                ELSE IF HasAny(SmalltalkWords, raw) \/ ThLaugh5(raw) THEN "smalltalk"
                ELSE "greet"
        turns == Get(st.ctx, "greet_menu_turns", 0)
        include_intro == (turns <= 1)
        Reply(r) ==
            [ st |-> [CtxPut(AddAssistant(r.st, r.msg), "greet_menu_turns", turns + 1)
                         EXCEPT !.last_action =
                             IF include_intro THEN "greeting_first_menu"
                             ELSE "greeting_with_menu_refresh"],
              reply |-> r.msg ]
        Menu(cm) ==
            Reply(RenderGreetingWithMenu(
                      CtxPut(CtxPut(CtxPut(cm.st, "pending_slot", PendingTopicSlot(cm.topics)),
                                    "main_menu_shown", TRUE),
                             "last_menu_topics", cm.topics),
                      kind, cm.topics, include_intro, o.prefix))
    IN  Menu(ComposeMenuTopics(st, MENU_SIZE, o.rng))

\* PersonaSupervisor._handle_greeting: [st, reply]
HandleGreeting(st, user_input, o) ==
    LET raw == user_input
        t == NormalizeForIntent(raw)
        kind == IF raw = << >> THEN "blank"
                ELSE IF ThanksMatch(t) THEN "thanks"
                ELSE IF HasAny(SmalltalkWords, raw) \/ ThLaugh5(raw) THEN "smalltalk"
                ELSE "greet"
        turns == Get(st.ctx, "greet_menu_turns", 0)
        include_intro == (turns = 0)
        Reply(r) ==
            [ st |-> [CtxPut(AddAssistant(r.st, r.msg), "greet_menu_turns", turns + 1)
                         EXCEPT !.last_action =
                             IF include_intro THEN "greeting_first_menu"
                             ELSE "greeting_with_menu_refresh"],
              reply |-> r.msg ]
        Menu(cm) ==
            Reply(RenderGreetingWithMenu(
                      CtxPut(CtxPut(CtxPut(cm.st, "pending_slot", PendingTopicSlot(cm.topics)),
                                    "main_menu_shown", TRUE),
                             "last_menu_topics", cm.topics),
                      kind, cm.topics, include_intro, o.prefix))
    IN  Menu(ComposeMenuTopics(st, MENU_SIZE, o.rng))

(***************************************************************************)
(* Retrieval gate of the supervisor                                        *)
(***************************************************************************)
\* PersonaSupervisor._tokenize_loose: the utterances of the model are written
\* without spaces or separators, so a text is one loose token, kept when it
\* has two characters or more
TokenizeLoose(s) ==
    LET t == NormalizeForIntent(s)
    IN  IF t # << >> /\ CharLen(t) >= 2 THEN { t } ELSE { }

\* PersonaSupervisor._topic_overlap_ratio, as the pair <<inter, union>>
TopicOverlapRatio(a, b) ==
    LET Ratio(sa, sb) ==
            IF sa = {} \/ sb = {} THEN << 0, 1 >>
            ELSE << Cardinality(sa \cap sb), Cardinality(sa \cup sb) >>
    IN  Ratio(TokenizeLoose(a), TokenizeLoose(b))

\* PersonaSupervisor._should_retrieve_new_for_practical (overlap < 0.22)
ShouldRetrieveNewForPractical(st, user_input) ==
    LET q == user_input
        last_q == IF st.last_retrieval_query # NoQuery /\ st.last_retrieval_query # << >>
                  THEN st.last_retrieval_query
                  ELSE Get(st.ctx, "last_retrieval_query", << >>)
        Low(r) == 100 * r[1] < 22 * r[2]
    IN  IF q = << >> THEN FALSE
        ELSE IF st.current_docs = << >> THEN TRUE
        ELSE IF last_q = << >> THEN TRUE
        ELSE IF last_q = q THEN FALSE
        ELSE Low(TopicOverlapRatio(last_q, q))

\* PersonaSupervisor._ensure_practical_retrieval_for_legal
EnsurePracticalRetrievalForLegal(st, user_input) ==
    LET q == user_input IN
    IF q = << >> THEN st
    ELSE IF ~ShouldRetrieveNewForPractical(st, q) THEN st
    ELSE LET st1 == IF SearchDown(st) THEN Freeze(LogQuery(st, q), "raised")
                    ELSE LogQuery(st, q)
             st2 == [st1 EXCEPT !.current_docs = TopKResults(RetrieverAnswer(st.force_empty, q)),
                                !.last_retrieval_query = q]
         IN  CtxPut(st2, "last_retrieval_query", q)

(***************************************************************************)
(* Practical strategy, as the supervisor calls it (_internal=True)         *)
(***************************************************************************)
\* dict.update(context_update)
CtxUpdate(st, cu) ==
    [st EXCEPT !.ctx = cu @@ st.ctx]

\* str.splitlines on a token text: "nl" separates the lines
RECURSIVE SplitLines(_, _, _)
SplitLines(t, cur, out) ==
    IF t = << >> THEN (IF cur = << >> THEN out ELSE Append(out, cur))
    ELSE IF Head(t) = "nl"
         THEN SplitLines(Tail(t), << >>, IF cur = << >> THEN out ELSE Append(out, cur))
         ELSE SplitLines(Tail(t), Append(cur, Head(t)), out)

\* the position of an "i)" marker, 0 for any other token
NumberIdx(x) ==
    IF \E i \in DOMAIN NumberTok : NumberTok[i] = x
    THEN CHOOSE i \in DOMAIN NumberTok : NumberTok[i] = x
    ELSE 0

\* PracticalPersonaService._extract_numbered_options: the lines "i) label",
\* sorted by i (stable), at most max_items labels; a label is one token
RECURSIVE LabelsWithIdx(_, _)
LabelsWithIdx(lines, idx) ==
    IF lines = << >> THEN << >>
    ELSE LET ln == Head(lines)
         IN  (IF Len(ln) = 2 /\ NumberIdx(ln[1]) = idx THEN << ln[2] >> ELSE << >>)
             \o LabelsWithIdx(Tail(lines), idx)

RECURSIVE SortedLabels(_, _)
SortedLabels(lines, idx) ==
    IF idx > Len(NumberTok) THEN << >>
    ELSE LabelsWithIdx(lines, idx) \o SortedLabels(lines, idx + 1)

ExtractNumberedOptions(text, max_items) ==
    FirstDocs(SortedLabels(SplitLines(text, << >>, << >>), 1), max_items)

\* _PHASE3_SLOT_KEY
PHASE3_SLOT_KEY == "detail_section"

\* PracticalPersonaService._infer_slot_key_from_question
InferSlotKeyFromQuestion(question) ==
    LET q == Range(NormalizeForIntent(question)) IN
    IF q \cap {"tarangmet", "phuenthi"} # {} THEN "area_size"
    ELSE IF q \cap {"bukkhonthammada", "nitibukkhon", "niti"} # {} THEN "entity_type"
    ELSE IF q \cap {"changwat", "khet", "thetsaban"} # {} THEN "location_scope"
    ELSE IF q \cap {"khaisura", "alcohol"} # {} THEN "alcohol_business"
    ELSE IF q \cap {"topic", "huakho"} # {} THEN "topic"
    ELSE IF "phase3_header" \in Range(question) THEN PHASE3_SLOT_KEY
    ELSE "choice"

\* PracticalPersonaService._apply_practical_lint for kind "ask"/"answer":
\* enforce_practical_policy returns the pair (text, meta), which the caller
\* unpacks as (ok, new_t); new_t is then the meta dict, not a string, so the
\* text is kept as it is
ApplyPracticalLint(text, kind) == text

\* PracticalPersonaService._retrieve_docs: [st, docs]
RetrieveDocs(st, q) ==
    [ st |-> IF SearchDown(st) THEN Freeze(LogQuery(st, q), "raised") ELSE LogQuery(st, q),
      docs |-> TopKResults(RetrieverAnswer(st.force_empty, q)) ]

\* The decisions the practical model call may return (the JSON object's
\* action, execution.query, execution.question/answer and
\* execution.context_update)
D_answer ==
    [ action |-> "answer", query |-> << >>, text |-> << "llm_answer" >>, cu |-> EmptyCtx ]
D_ask ==
    [ action |-> "ask", query |-> << >>,
      text |-> << "llm_question", "nl", "n1", "opt_a", "nl", "n2", "opt_b" >>,
      cu |-> EmptyCtx ]
D_retrieve ==
    [ action |-> "retrieve", query |-> << >>, text |-> << >>, cu |-> EmptyCtx ]
D_other ==
    [ action |-> "other", query |-> << >>, text |-> << >>, cu |-> EmptyCtx ]

\* "ask" branch of PracticalPersonaService.handle
PracticalAsk(st, d) ==
    LET question == IF d.text = << >> THEN << "default_question" >> ELSE d.text
        Reply(st2, q3) ==
            [ st |-> [AddAssistant(st2, q3) EXCEPT !.round = @ + 1], reply |-> q3 ]
        WithOptions(st2, options) ==
            Reply(st2,
                  ApplyPracticalLint(
                      IF /\ options # << >>
                         /\ "n1" \notin Range(question)
                         /\ Range(options) \cap Range(question) = {}
                      THEN question \o << "nl" >> \o FormatNumberedOptions(options, 9)
                      ELSE question,
                      "ask"))
        Ask(st2) ==
            WithOptions(st2, IF Has(st2.ctx, "pending_slot")
                             THEN st2.ctx["pending_slot"].options ELSE << >>)
        Parsed(st1, parsed_opts, slot_key) ==
            Ask(IF ~Has(st1.ctx, "pending_slot") /\ parsed_opts # << >>
                THEN CtxPut(st1, "pending_slot",
                            [ key |-> slot_key, options |-> parsed_opts,
                              allow_multi |-> (slot_key = PHASE3_SLOT_KEY) ])
                ELSE st1)
    IN  Parsed(CtxUpdate(st, d.cu), ExtractNumberedOptions(question, 9),
               InferSlotKeyFromQuestion(question))

\* "answer" branch of PracticalPersonaService.handle (_internal=True)
PracticalAnswer(st, d) ==
    LET ans == ApplyPracticalLint(IF d.text = << >> THEN << "no_confirmed_info" >> ELSE d.text,
                                  "answer")
        st1 == CtxUpdate(st, d.cu)
        st2 == AddAssistant(st1, ans)
        st3 == CtxPut(st2, "phase", "None")
    IN  [ st |-> [st3 EXCEPT !.round = 0], reply |-> ans ]

\* PracticalPersonaService.handle(state, user_input, _internal=True): [st, reply].
\* decs holds the decisions of the successive model calls; after a
\* "retrieve" the strategy calls itself with "__auto_post_retrieve__".
RECURSIVE PracticalHandle(_, _, _)
PracticalHandle(st, user_input, decs) ==
    LET st0 == [st EXCEPT !.persona_id = "practical",
                          !.llm = Append(@, "practical_decision")]
        d == Head(decs)
    IN  IF d.action = "retrieve"
        THEN LET q == IF d.query # << >> THEN d.query ELSE user_input
                 r == RetrieveDocs(st0, q)
                 st1 == [r.st EXCEPT !.current_docs = r.docs,
                                     !.last_retrieval_query = q]
             IN  IF Tail(decs) = << >>
                 THEN [ st |-> Freeze(st1, "recursing"), reply |-> << >> ]
                 ELSE PracticalHandle(st1, << "__auto_post_retrieve__" >>, Tail(decs))
        ELSE IF d.action = "ask" THEN PracticalAsk(st0, d)
        ELSE IF d.action = "answer" THEN PracticalAnswer(st0, d)
        ELSE LET fallback == ApplyPracticalLint(<< "practical_fallback" >>, "ask")
             IN  [ st |-> AddAssistant(st0, fallback), reply |-> fallback ]

\* the supervisor's call self.practical.handle(state, text, _internal=True)
InvokePractical(st, text, decs) ==
    PracticalHandle([st EXCEPT !.strategy =
                        Append(@, [persona |-> "practical", input |-> text,
                                   force_intake |-> FALSE]),
                                !.at_dispatch =
                        Append(@, [slot |-> Has(st.ctx, "pending_slot"),
                                   searches |-> Len(st.queries)])],
                    text, decs)

(***************************************************************************)
(* Academic strategy                                                       *)
(***************************************************************************)
\* AcademicPersonaService._FILLER_ONLY_RE
AcadFillerOnly ==
    { <<"khrap">>, <<"khap">>, <<"kha_f">>, <<"kha">>, <<"cha">>, <<"cha_s">>,
      <<"khaa">>, <<"ngap">> }

\* AcademicPersonaService._looks_like_greeting_or_noise (on the raw text)
LooksLikeGreetingOrNoise(raw) ==
    \/ raw = << >>
    \/ ThLaugh5(raw)
    \/ raw \in AcadFillerOnly
    \/ IsPrefix(<< "hi" >>, raw) \/ IsPrefix(<< "hello" >>, raw)
    \/ IsPrefix(<< "sawasdee" >>, raw) \/ IsPrefix(<< "watdee" >>, raw)
    \/ CharLen(raw) <= 14 /\ NoiseOnly(raw)

\* AcademicPersonaService._ensure_flow / _set_flow with a stage
SetFlow(st, stage) == CtxPut(st, "academic_flow", stage)

\* AcademicPersonaService._start_intake_with_retrieval
StartIntakeWithRetrieval(st, user_question) ==
    LET q == IF user_question = << >> THEN << "default_legal_query" >> ELSE user_question
        st1 == CtxPut(st, "academic_question", q)
        r == RetrieveDocs(st1, q)
        st2 == [r.st EXCEPT !.current_docs = r.docs, !.last_retrieval_query = q]
    IN  CtxPut(st2, "last_retrieval_query", q)

\* the five numbered lines of the required-slots question
SlotOptions ==
    << "slot_location", "slot_entity", "slot_kind", "slot_district", "slot_status" >>
SlotsQuestion == << "slots_intro", "nl" >> \o FormatNumberedOptions(SlotOptions, 9)

\* AcademicPersonaService._ask_required_slots: [st, msg]
AskRequiredSlots(st) ==
    LET st1 == IF Len(SlotOptions) >= 2
               THEN CtxPut(CtxPut(st, "pending_options", SlotOptions),
                           "pending_question", SlotsQuestion)
               ELSE CtxPut(CtxPut(st, "pending_options", << >>),
                           "pending_question", << >>)
    IN  [ st |-> SetFlow(st1, "awaiting_slots"), msg |-> SlotsQuestion ]

\* _SELECT_ALL_RE.search
SelectAllTokens == { "thangmot", "thukkho", "all", "everything" }
IsSelectAll(user_text) == Range(user_text) \cap SelectAllTokens # {}

\* re.findall(r"\d{1,2}") over one run of digits
RECURSIVE Chunk2(_)
Chunk2(ds) ==
    IF ds = << >> THEN << >>
    ELSE IF Len(ds) = 1 THEN << ds[1] >>
    ELSE << 10 * ds[1] + ds[2] >> \o Chunk2(SubSeq(ds, 3, Len(ds)))

\* the runs of digits of a text, each cut into numbers of at most 2 digits
RECURSIVE FindNumbers(_, _)
FindNumbers(t, run) ==
    IF t = << >> THEN Chunk2(run)
    ELSE IF IsDigitTok(Head(t)) THEN FindNumbers(Tail(t), run \o TokDigits[Head(t)])
    ELSE Chunk2(run) \o FindNumbers(Tail(t), << >>)

RECURSIVE Dedupe(_, _)
Dedupe(s, out) ==
    IF s = << >> THEN out
    ELSE Dedupe(Tail(s), IF Head(s) \in Range(out) THEN out ELSE Append(out, Head(s)))

\* AcademicPersonaService._parse_numbers
ParseNumbers(user_text) ==
    LET InRange(n) == 0 < n /\ n < 100
    IN  Dedupe(SelectSeq(FindNumbers(user_text, << >>), InRange), << >>)

\* AcademicPersonaService._bind_choice_if_any: [st, bound, mode, selected]
BindChoiceIfAny(st, user_text) ==
    LET pending == Get(st.ctx, "pending_options", << >>)
        keys == [i \in 1..Len(pending) |-> i]
        nums == ParseNumbers(user_text)
        IsKey(n) == n \in DOMAIN pending
        valid == SelectSeq(nums, IsKey)
        Bound(mode, sel) ==
            [ st |-> CtxPut(CtxPut(CtxPut(st, "resolved_selection",
                                          [type |-> mode, selected |-> sel]),
                                   "pending_options", << >>),
                            "pending_question", << >>),
              bound |-> TRUE, mode |-> mode, selected |-> sel ]
        Unbound == [ st |-> st, bound |-> FALSE, mode |-> "none", selected |-> << >> ]
    IN  IF pending = << >> THEN Unbound
        ELSE IF IsSelectAll(user_text) THEN Bound("all", keys)
        ELSE IF nums = << >> THEN Unbound
        ELSE IF valid = << >> THEN Unbound
        ELSE Bound("numbers", valid)

\* AcademicPersonaService._save_slots_best_effort
SaveSlotsBestEffort(st, user_text, bind) ==
    LET slots == Get(st.ctx, "academic_slots", [raw |-> << >>, selected_numbers |-> << >>])
    IN  CtxPut(st, "academic_slots",
               [ raw |-> user_text,
                 selected_numbers |-> IF bind.bound /\ bind.mode = "numbers"
                                      THEN bind.selected ELSE slots.selected_numbers ])

\* the section catalogue: metadata keys that make a section available, the
\* section's key and its label
SectionCandidates ==
    << [ keys |-> {"operation_steps", "operation_step", "steps", "procedure"},
         key |-> "operation_steps", label |-> "sec_steps" ],
       [ keys |-> {"identification_documents", "documents", "required_documents"},
         key |-> "identification_documents", label |-> "sec_documents" ],
       [ keys |-> {"fees", "fee"}, key |-> "fees", label |-> "sec_fees" ],
       [ keys |-> {"operation_duration", "duration"},
         key |-> "operation_duration", label |-> "sec_duration" ],
       [ keys |-> {"service_channel", "channel", "department"},
         key |-> "service_channel", label |-> "sec_channel" ],
       [ keys |-> {"terms_and_conditions", "conditions"},
         key |-> "terms_and_conditions", label |-> "sec_conditions" ],
       [ keys |-> {"legal_regulatory", "law", "regulation"},
         key |-> "legal_regulatory", label |-> "sec_legal" ] >>

\* AcademicPersonaService._available_sections_from_docs
AvailableSectionsFromDocs(st) ==
    LET HasAnyKey(c) ==
            \E i \in DOMAIN st.current_docs :
                DOMAIN st.current_docs[i].metadata \cap c.keys # {}
    IN  SelectSeq(SectionCandidates, HasAnyKey)

\* AcademicPersonaService._ask_sections: [st, msg]
AskSections(st) ==
    LET Ask(sections, opts, msg) ==
            [ st |-> SetFlow(CtxPut(CtxPut(CtxPut(st, "section_catalog", sections),
                                           "pending_options", opts),
                                    "pending_question", msg),
                             "awaiting_sections"),
              msg |-> msg ]
        Labels(sections, opts) ==
            Ask(sections, opts,
                << "sections_intro", "nl" >> \o FormatNumberedOptions(opts, 9))
        Sections(sections) ==
            IF sections = << >>
            THEN [ st |-> SetFlow(CtxPut(st, "selected_sections",
                                         [type |-> "all", keys |-> << >>]),
                                  "awaiting_sections"),
                   msg |-> << >> ]
            ELSE Labels(sections, [i \in DOMAIN sections |-> sections[i].label])
    IN  Sections(AvailableSectionsFromDocs(st))

\* AcademicPersonaService._save_selected_sections
SaveSelectedSections(st, user_text, bind) ==
    LET catalog == Get(st.ctx, "section_catalog", << >>)
        nums == IF bind.bound /\ bind.mode = "numbers" THEN bind.selected ELSE << >>
        InCatalog(n) == n \in DOMAIN catalog
        KeysOf(ok) == [i \in DOMAIN ok |-> catalog[ok[i]].key]
        Save(all_keys, picked) ==
            IF IsSelectAll(user_text) \/ (bind.bound /\ bind.mode = "all")
            THEN CtxPut(st, "selected_sections", [type |-> "all", keys |-> all_keys])
            ELSE IF nums = << >>
            THEN CtxPut(st, "selected_sections", [type |-> "all", keys |-> all_keys])
            ELSE CtxPut(st, "selected_sections",
                        [ type |-> "picked",
                          keys |-> IF picked = << >> THEN all_keys ELSE picked ])
    IN  Save([i \in DOMAIN catalog |-> catalog[i].key], KeysOf(SelectSeq(nums, InCatalog)))

\* AcademicPersonaService._mark_done
MarkDone(st) == CtxPut(SetFlow(st, "done"), "auto_return_to_practical", TRUE)

\* what the final model call of the academic strategy may yield: a JSON
\* answer without context_update, or nothing parseable (_call_llm_json then
\* returns its built-in answer, whose context_update sets
\* auto_return_to_practical)
AcademicAnswers == { "answer", "unparseable" }

\* the "awaiting_sections" stage of AcademicPersonaService.handle
AcademicFinal(st, user_text, ans) ==
    LET text == IF ans = "answer" THEN << "academic_answer" >>
                ELSE << "academic_sorry" >>
        Answer(st1) ==
            [ st |-> [AddAssistant(
                          CtxPop(CtxPut(CtxPut(
                              MarkDone(IF ans = "answer" THEN st1
                                       ELSE CtxPut(st1, "auto_return_to_practical", TRUE)),
                              "pending_options", << >>),
                              "pending_question", << >>),
                              "resolved_selection"),
                          text)
                         EXCEPT !.round = 0, !.llm = Append(@, "academic_final")],
              reply |-> text ]
        Bound(b) == Answer(SaveSelectedSections(b.st, user_text, b))
    IN  Bound(BindChoiceIfAny(st, user_text))

\* AcademicPersonaService.handle(state, user_input, force_intake,
\* _internal=True): [st, reply]
AcademicHandle(st, user_input, force_intake, ans) ==
    LET st0 == [st EXCEPT !.persona_id = "academic"]
        user_text == user_input
        stage == FlowStage(st0)
        noise == LooksLikeGreetingOrNoise(user_text)
        Say(st1, msg) == [ st |-> AddAssistant(st1, msg), reply |-> msg ]
        Ask(q) == Say(q.st, q.msg)
        AskNext(q) == Say([q.st EXCEPT !.round = @ + 1], q.msg)
        \* the section question, or the answer when no section can be offered
        Sections(q2) ==
            IF q2.msg # << >> THEN AskNext(q2)
            ELSE AcademicFinal(SetFlow(q2.st, "awaiting_sections"), user_text, ans)
        Slots(b) ==
            IF user_text = << >> \/ (~b.bound /\ noise)
            THEN Ask(AskRequiredSlots(b.st))
            ELSE Sections(AskSections(SaveSlotsBestEffort(b.st, user_text, b)))
    IN  IF stage = ""
        THEN IF force_intake /\ noise THEN Say(st0, << "acad_ask_question" >>)
             ELSE IF user_text # << >>
             THEN AskNext(AskRequiredSlots(
                      StartIntakeWithRetrieval(SetFlow(st0, "awaiting_slots"), user_text)))
             ELSE Say(st0, << "acad_ask_question" >>)
        ELSE IF stage = "awaiting_slots"
        THEN IF force_intake /\ noise THEN Ask(AskRequiredSlots(st0))
             ELSE Slots(BindChoiceIfAny(st0, user_text))
        ELSE IF stage = "awaiting_sections" THEN AcademicFinal(st0, user_text, ans)
        ELSE Say(st0, << "acad_fallback" >>)

\* the supervisor's call self.academic.handle(state, text, ..., _internal=True)
InvokeAcademic(st, text, force_intake, ans) ==
    AcademicHandle([st EXCEPT !.strategy =
                       Append(@, [persona |-> "academic", input |-> text,
                                  force_intake |-> force_intake]),
                               !.at_dispatch =
                       Append(@, [slot |-> Has(st.ctx, "pending_slot"),
                                  searches |-> Len(st.queries)])],
                   text, force_intake, ans)

(***************************************************************************)
(* Supervisor: classifiers                                                 *)
(***************************************************************************)
\* PersonaSupervisor._classify_yes_no_det: [yes, no, method]
ClassifyYesNoDet(user_text) ==
    LET R(y, n, m) == [yes |-> y, no |-> n, method |-> m]
        Det(t, yes, no) ==
            IF t = << >> THEN R(FALSE, FALSE, "empty")
            ELSE IF t = << "d1" >> THEN R(TRUE, FALSE, "num_yes")
            ELSE IF t = << "d2" >> THEN R(FALSE, TRUE, "num_no")
            ELSE IF t \in FillerOnly THEN R(FALSE, FALSE, "filler_only")
            ELSE IF yes /\ no THEN R(FALSE, FALSE, "conflict")
            ELSE IF yes THEN R(TRUE, FALSE, "det_contains")
            ELSE IF no THEN R(FALSE, TRUE, "det_contains")
            ELSE R(FALSE, FALSE, "unclear")
        Norm(t) == Det(t, HasAny(YES_CORE, t), HasAny(NO_CORE, t))
    IN  Norm(NormalizeConfirmText(user_text))

\* what llm_style_call may return: a confidence below 0.55, or a confident
\* wants_long / wants_short
StyleAnswers == { "low", "long", "short" }

\* PersonaSupervisor._infer_user_style_request_hybrid:
\* [st, wants_short, wants_long, method]
InferUserStyleRequestHybrid(st, text, ans) ==
    LET st1 == [st EXCEPT !.llm = Append(@, "style")]
        R(s, ws, wl, m) == [st |-> s, wants_short |-> ws, wants_long |-> wl, method |-> m]
        Hybrid(det) ==
            IF ~StyleLikely(text)
            THEN IF det.wants_short \/ det.wants_long
                 THEN R(st, det.wants_short, det.wants_long, "det")
                 ELSE R(st, FALSE, FALSE, "none")
            ELSE IF ans = "long" THEN R(st1, FALSE, TRUE, "llm")
            ELSE IF ans = "short" THEN R(st1, TRUE, FALSE, "llm")
            ELSE IF det.wants_short \/ det.wants_long
                 THEN R(st1, det.wants_short, det.wants_long, "det_fallback")
            ELSE R(st1, FALSE, FALSE, "llm_low")
    IN  Hybrid(InferUserStyleRequestDet(text))

\* PersonaSupervisor._classify_intent: [st, intent, kind, wants_short, wants_long]
ClassifyIntent(st, user_input, o) ==
    LET text == user_input
        R(s, i, k, ws, wl) ==
            [st |-> s, intent |-> i, kind |-> k, wants_short |-> ws, wants_long |-> wl]
        Styled(style) ==
            IF style.wants_long \/ style.wants_short
            THEN R(style.st, "EXPLICIT_SWITCH", "style", style.wants_short, style.wants_long)
            ELSE IF HasAny(SmalltalkWords, text) \/ LooksLikeGreetingOrThanks(text)
                 THEN R(style.st, "GREETING", "", FALSE, FALSE)
            ELSE IF LooksLikeLegalQuestion(text)
                 THEN R(style.st, "LEGAL_NEW", "", FALSE, FALSE)
            ELSE IF IsNoise(text) THEN R(style.st, "NOISE", "", FALSE, FALSE)
            ELSE R(style.st, "UNKNOWN", "", FALSE, FALSE)
    IN  IF IsAcademicIntakeActive(st) THEN R(st, "ACAD_INTAKE_REPLY", "", FALSE, FALSE)
        ELSE IF Truthy(st.ctx, "awaiting_persona_confirmation")
             THEN R(st, "CONFIRM_YESNO", "", FALSE, FALSE)
        ELSE IF LooksLikeSwitchWithoutTarget(text)
             THEN R(st, "EXPLICIT_SWITCH", "no_target", FALSE, FALSE)
        ELSE IF LooksLikeModeStatusQuery(text) THEN R(st, "MODE_STATUS", "", FALSE, FALSE)
        ELSE Styled(InferUserStyleRequestHybrid(st, text, o.style))

(***************************************************************************)
(* Supervisor: pending slot                                                *)
(***************************************************************************)
\* PersonaSupervisor._has_pending_slot
HasPendingSlot(st) ==
    Has(st.ctx, "pending_slot") /\ st.ctx["pending_slot"].options # << >>

\* (ทั้งหมด|all\b|ทุกข้อ|ทุกอย่าง)
AllWords == { "thangmot", "all", "thukkho", "thukyang" }

\* PersonaSupervisor._looks_like_pending_slot_reply
LooksLikePendingSlotReply(user_input) ==
    LET raw == user_input IN
    IF raw = << >> THEN FALSE
    ELSE IF ThLaugh5(raw) THEN FALSE
    ELSE IF LikelySelection(raw) THEN TRUE
    ELSE IF AnyNumbers(raw) # << >> THEN TRUE
    ELSE Range(raw) \cap AllWords # {}

\* PersonaSupervisor._parse_indices (no utterance of the model holds a range
\* "a-b")
ParseIndices(text) == Dedupe(AnyNumbers(text), << >>)

\* ", ".join(texts)
RECURSIVE JoinComma(_)
JoinComma(texts) ==
    IF texts = << >> THEN << >>
    ELSE IF Len(texts) = 1 THEN << texts[1] >>
    ELSE << texts[1], "comma" >> \o JoinComma(Tail(texts))

\* _map_pending_slot_reply answering an index out of range with the message
\* of a reply without a number
MapPendingSlotReplyOneMessage(pending, user_input) ==
    LET options == pending.options
        allow_multi == pending.allow_multi
        raw == user_input
        InOptions(i) == 1 <= i /\ i <= Len(options)
        R(m, e) == [mapped |-> m, err |-> e]
        Map(idxs, valid) ==
            IF raw = << >> THEN R(<< >>, << >>)
            ELSE IF Range(raw) \cap AllWords # {}
                 THEN IF allow_multi /\ options # << >> THEN R(JoinComma(options), << >>)
                      ELSE R(<< >>, << "err_multi_only" >>)
            ELSE IF idxs = << >> THEN R(<< >>, << "err_answer_number" >>)
            ELSE IF valid = << >> THEN R(<< >>, << "err_answer_number" >>)
            ELSE IF ~allow_multi THEN R(<< options[valid[1]] >>, << >>)
            ELSE R(JoinComma([i \in DOMAIN valid |-> options[valid[i]]]), << >>)
        Indices(idxs) == Map(idxs, SelectSeq(idxs, InOptions))
        Parsed(idxs0) ==
            Indices(IF idxs0 = << >> /\ LikelySelection(raw)
                       /\ Len(DigitsOf(raw)) >= 2 /\ Len(options) <= 9
                    THEN DigitsOf(raw) ELSE idxs0)
    IN  Parsed(ParseIndices(raw))

\* PersonaSupervisor._map_pending_slot_reply: [mapped, err], << >> for None
MapPendingSlotReply(pending, user_input) ==
    LET options == pending.options
        allow_multi == pending.allow_multi
        raw == user_input
        InOptions(i) == 1 <= i /\ i <= Len(options)
        R(m, e) == [mapped |-> m, err |-> e]
        Map(idxs, valid) ==
            IF raw = << >> THEN R(<< >>, << >>)
            ELSE IF Range(raw) \cap AllWords # {}
                 THEN IF allow_multi /\ options # << >> THEN R(JoinComma(options), << >>)
                      ELSE R(<< >>, << "err_multi_only" >>)
            ELSE IF idxs = << >> THEN R(<< >>, << "err_answer_number" >>)
            ELSE IF valid = << >> THEN R(<< >>, << "err_out_of_range" >>)
            ELSE IF ~allow_multi THEN R(<< options[valid[1]] >>, << >>)
            ELSE R(JoinComma([i \in DOMAIN valid |-> options[valid[i]]]), << >>)
        Indices(idxs) == Map(idxs, SelectSeq(idxs, InOptions))
        Parsed(idxs0) ==
            Indices(IF idxs0 = << >> /\ LikelySelection(raw)
                       /\ Len(DigitsOf(raw)) >= 2 /\ Len(options) <= 9
                    THEN DigitsOf(raw) ELSE idxs0)
    IN  Parsed(ParseIndices(raw))

\* PersonaSupervisor._should_route_pending_slot_now
ShouldRoutePendingSlotNow(st, user_input) ==
    IF ~HasPendingSlot(st) THEN FALSE
    ELSE IF user_input = << >> THEN FALSE
    ELSE IF ThLaugh5(user_input) THEN FALSE
    ELSE IF IsAcademicIntakeActive(st) THEN FALSE
    ELSE IF Truthy(st.ctx, "awaiting_persona_confirmation") THEN FALSE
    ELSE IF Truthy(st.ctx, "awaiting_persona_pick") THEN FALSE
    ELSE IF LooksLikeSwitchWithoutTarget(user_input) THEN FALSE
    ELSE IF LooksLikeModeStatusQuery(user_input) THEN FALSE
    ELSE IF /\ StyleLikely(user_input)
            /\ ~LikelySelection(user_input)
            /\ AnyNumbers(user_input) = << >> THEN FALSE
    ELSE LooksLikePendingSlotReply(user_input)

(***************************************************************************)
(* Supervisor: switching and routing                                       *)
(***************************************************************************)
\* _post_route_academic_auto_return rendering the menu with the introduction
AutoReturnWithIntro(st, reply, o) ==
    LET Final(r) ==
            [ st |-> [r.st EXCEPT !.last_action = "academic_done_auto_return_to_practical"],
              reply |-> NormalizeMale(reply \o << "nl", "nl" >> \o r.msg) ]
        Menu(cm) ==
            Final(RenderGreetingWithMenu(
                      CtxPut(CtxPut(CtxPut(cm.st, "pending_slot", PendingTopicSlot(cm.topics)),
                                    "main_menu_shown", TRUE),
                             "last_menu_topics", cm.topics),
                      "smalltalk", cm.topics, TRUE, o.prefix))
    IN  IF Truthy(st.ctx, "auto_return_after_academic_done") /\ FlowStage(st) = "done"
        THEN Menu(ComposeMenuTopics(
                      CtxPopAll(SyncPersonaAndProfile([st EXCEPT !.persona_id = "practical"]),
                                << "auto_return_after_academic_done",
                                   "switch_origin_persona",
                                   "auto_return_to_practical" >>),
                      MENU_SIZE, o.rng))
        ELSE [ st |-> st, reply |-> reply ]

\* PersonaSupervisor._post_route_academic_auto_return: [st, reply]
PostRouteAcademicAutoReturn(st, reply, o) ==
    LET Final(r) ==
            [ st |-> [r.st EXCEPT !.last_action = "academic_done_auto_return_to_practical"],
              reply |-> NormalizeMale(reply \o << "nl", "nl" >> \o r.msg) ]
        Menu(cm) ==
            Final(RenderGreetingWithMenu(
                      CtxPut(CtxPut(CtxPut(cm.st, "pending_slot", PendingTopicSlot(cm.topics)),
                                    "main_menu_shown", TRUE),
                             "last_menu_topics", cm.topics),
                      "smalltalk", cm.topics, FALSE, o.prefix))
    IN  IF Truthy(st.ctx, "auto_return_after_academic_done") /\ FlowStage(st) = "done"
        THEN Menu(ComposeMenuTopics(
                      CtxPopAll(SyncPersonaAndProfile([st EXCEPT !.persona_id = "practical"]),
                                << "auto_return_after_academic_done",
                                   "switch_origin_persona",
                                   "auto_return_to_practical" >>),
                      MENU_SIZE, o.rng))
        ELSE [ st |-> st, reply |-> reply ]

\* the supervisor's dispatch to the academic strategy, followed by
\* Auto-Return, _normalize_male and _add_assistant
DispatchAcademic(st, text, force_intake, o) ==
    LET Add(st1, reply) == [ st |-> AddAssistant(st1, reply), reply |-> reply ]
        Normalized(p) == Add(p.st, NormalizeMale(p.reply))
        PostRoute(a) == Normalized(PostRouteAcademicAutoReturn(a.st, a.reply, o))
    IN  PostRoute(InvokeAcademic(st, text, force_intake, o.acad))

\* the supervisor's dispatch to the practical strategy, followed by
\* _normalize_male and _add_assistant
DispatchPractical(st, text, o) ==
    LET Add(st1, reply) == [ st |-> AddAssistant(st1, reply), reply |-> reply ]
        Normalized(p) == Add(p.st, NormalizeMale(p.reply))
    IN  Normalized(InvokePractical(st, text, o.pdec))

\* _route_pending_slot_to_persona dispatching with the slot still stored
RoutePendingSlotKeepsSlot(st, user_input, o) ==
    LET pending == st.ctx["pending_slot"]
        Invalid(msg) ==
            [ st |-> [AddAssistant(st, NormalizeMale(msg))
                        EXCEPT !.last_action = "pending_slot_invalid_reply"],
              reply |-> NormalizeMale(msg) ]
        Dispatch(st2, mapped) ==
            IF st2.persona_id = "academic" THEN DispatchAcademic(st2, mapped, FALSE, o)
            ELSE DispatchPractical(st2, mapped, o)
        Mapped(m) ==
            IF m.err # << >> THEN Invalid(m.err)
            ELSE IF m.mapped = << >> THEN Invalid(<< "err_answer_number" >>)
            ELSE Dispatch(IF pending.key = "topic"
                          THEN CtxPut(st, "last_topic", m.mapped) ELSE st,
                          m.mapped)
    IN  Mapped(MapPendingSlotReply(pending, user_input))

\* PersonaSupervisor._route_pending_slot_to_persona
RoutePendingSlotToPersona(st, user_input, o) ==
    LET pending == st.ctx["pending_slot"]
        Invalid(msg) ==
            [ st |-> [AddAssistant(st, NormalizeMale(msg))
                        EXCEPT !.last_action = "pending_slot_invalid_reply"],
              reply |-> NormalizeMale(msg) ]
        Dispatch(st2, mapped) ==
            IF st2.persona_id = "academic" THEN DispatchAcademic(st2, mapped, FALSE, o)
            ELSE DispatchPractical(st2, mapped, o)
        Mapped(m) ==
            IF m.err # << >> THEN Invalid(m.err)
            ELSE IF m.mapped = << >> THEN Invalid(<< "err_answer_number" >>)
            ELSE Dispatch(CtxPop(IF pending.key = "topic"
                                 THEN CtxPut(st, "last_topic", m.mapped) ELSE st,
                                 "pending_slot"),
                          m.mapped)
    IN  Mapped(MapPendingSlotReply(pending, user_input))

\* _mark_auto_return_if_practical_to_academic looking at the origin alone
MarkAutoReturnFromPractical(st, target_pid) ==
    LET origin == st.persona_id
        st1 == CtxPut(st, "switch_origin_persona", origin)
    IN  IF origin = "practical"
        THEN CtxPut(st1, "auto_return_after_academic_done", TRUE)
        ELSE CtxPop(st1, "auto_return_after_academic_done")

\* PersonaSupervisor._mark_auto_return_if_practical_to_academic
MarkAutoReturnIfPracticalToAcademic(st, target_pid) ==
    LET origin == st.persona_id
        st1 == CtxPut(st, "switch_origin_persona", origin)
    IN  IF origin = "practical" /\ target_pid = "academic"
        THEN CtxPut(st1, "auto_return_after_academic_done", TRUE)
        ELSE CtxPop(st1, "auto_return_after_academic_done")

\* _enter_switch_confirmation applying the switch while it asks
EnterSwitchApplied(st, target_pid, replay_user_input) ==
    LET st1 == CtxPut(CtxPut(CtxPut(CtxPut(st, "pending_persona", target_pid),
                                    "pending_replay_user_input", replay_user_input),
                             "awaiting_persona_confirmation", TRUE),
                      "confirm_tries", 0)
        st2 == MarkAutoReturnIfPracticalToAcademic(st1, target_pid)
        msg == NormalizeMale(<< "switch_to_mode", target_pid, "chaimai_khrap" >>)
    IN  [ st |-> [AddAssistant(st2, msg) EXCEPT !.last_action = "persona_switch_confirm",
                                                !.persona_id = target_pid],
          reply |-> msg ]

\* PersonaSupervisor._enter_switch_confirmation
EnterSwitchConfirmation(st, target_pid, replay_user_input) ==
    LET st1 == CtxPut(CtxPut(CtxPut(CtxPut(st, "pending_persona", target_pid),
                                    "pending_replay_user_input", replay_user_input),
                             "awaiting_persona_confirmation", TRUE),
                      "confirm_tries", 0)
        st2 == MarkAutoReturnIfPracticalToAcademic(st1, target_pid)
        msg == NormalizeMale(<< "switch_to_mode", target_pid, "chaimai_khrap" >>)
    IN  [ st |-> [AddAssistant(st2, msg) EXCEPT !.last_action = "persona_switch_confirm"],
          reply |-> msg ]

\* PersonaSupervisor._handle_persona_pick
HandlePersonaPick(st, user_input) ==
    LET t == NormalizeForIntent(user_input)
        msg == NormalizeMale(<< "pick_mode", "n1", "practical", "n2", "academic", "khrap" >>)
        Target(practical_hint, academic_hint) ==
            IF "d1" \in Range(t) THEN "practical"
            ELSE IF "d2" \in Range(t) THEN "academic"
            ELSE IF academic_hint
                 THEN (IF practical_hint THEN "" ELSE "academic")
            ELSE IF practical_hint THEN "practical"
            ELSE ""
        Pick(target_pid) ==
            IF target_pid = ""
            THEN [ st |-> AddAssistant(st, msg), reply |-> msg ]
            ELSE EnterSwitchConfirmation(CtxPop(st, "awaiting_persona_pick"),
                                         target_pid, << >>)
    IN  Pick(Target(HasAny(TARGET_PRACTICAL_HINTS, t) \/ "practical" \in Range(t),
                    HasAny(TARGET_ACADEMIC_HINTS, t) \/ "academic" \in Range(t)))

\* what llm_confirm_call may return: a confidence below 0.55, or a confident
\* yes / no
ConfirmAnswers == { "low", "yes", "no" }

\* the reading with the classifier consulted for every reply that is not
\* empty, a lone politeness particle included
ClassifyConfirmationAskFiller(user_input, ans) ==
    LET Read(det, ask_llm) ==
            [ yes |-> IF ask_llm /\ ans # "low" THEN ans = "yes" ELSE det.yes,
              no |-> IF ask_llm /\ ans # "low" THEN ans = "no" ELSE det.no,
              ask_llm |-> ask_llm ]
        Det(det) ==
            Read(det, ~det.yes /\ ~det.no /\ det.method # "empty")
    IN  Det(ClassifyYesNoDet(user_input))

\* the yes / no reading of a confirmation reply in _handle_persona_confirmation:
\* llm_confirm_call is consulted when the deterministic reading is neither yes
\* nor no and its method is neither "filler_only" nor "empty", and its answer
\* counts from confidence 0.55: [yes, no, ask_llm]
ClassifyConfirmation(user_input, ans) ==
    LET Read(det, ask_llm) ==
            [ yes |-> IF ask_llm /\ ans # "low" THEN ans = "yes" ELSE det.yes,
              no |-> IF ask_llm /\ ans # "low" THEN ans = "no" ELSE det.no,
              ask_llm |-> ask_llm ]
        Det(det) ==
            Read(det, ~det.yes /\ ~det.no /\ det.method \notin {"filler_only", "empty"})
    IN  Det(ClassifyYesNoDet(user_input))

\* the keys of the confirmation context
ConfirmKeys ==
    << "pending_persona", "pending_replay_user_input",
       "awaiting_persona_confirmation", "confirm_tries" >>

\* the keys removed with the pending slot among them
CancelKeysAndSlot ==
    ConfirmKeys \o << "auto_return_after_academic_done", "switch_origin_persona",
                      "pending_slot" >>

\* the keys _handle_persona_confirmation removes on no and on the second
\* unclear reply
CancelKeys ==
    ConfirmKeys \o << "auto_return_after_academic_done", "switch_origin_persona" >>

\* the retry test with the cap one too high
UnclearLimitAtThree(tries) == tries >= 3

\* _handle_persona_confirmation: "if tries >= 2", on the incremented counter
UnclearLimitReached(tries) == tries >= 2

\* PersonaSupervisor._handle_persona_confirmation
HandlePersonaConfirmation(st, user_input, o) ==
    LET target_pid == Get(st.ctx, "pending_persona", "")
        tries == Get(st.ctx, "confirm_tries", 0)
        Say(st1, msg) == [ st |-> AddAssistant(st1, msg), reply |-> msg ]
        SayAs(st1, msg, action) ==
            [ st |-> [AddAssistant(st1, msg) EXCEPT !.last_action = action], reply |-> msg ]
        \* yes: the switch, then the replay of the utterance that asked for it
        Replayed(prefix, replayed) ==
            SayAs(replayed.st, NormalizeMale(prefix \o << "nl" >> \o replayed.reply),
                  "persona_switch_applied_replayed")
        AutoReturn(a) == PostRouteAcademicAutoReturn(a.st, a.reply, o)
        Replay(y3, replay_input, prefix) ==
            IF replay_input # << >>
            THEN Replayed(prefix,
                          IF y3.persona_id = "academic"
                          THEN AutoReturn(InvokeAcademic(y3, replay_input, FALSE, o.acad))
                          ELSE InvokePractical(y3, replay_input, o.pdec))
            ELSE [ st |-> [y3 EXCEPT !.last_action = "persona_switch_applied"],
                   reply |-> prefix ]
        Switched(y1, prefix) ==
            Replay(AddAssistant(CtxPopAll(y1, ConfirmKeys), prefix),
                   Get(y1.ctx, "pending_replay_user_input", << >>), prefix)
        \* no, or unclear for the second time
        Cancel(st0, msg, action) ==
            SayAs(CtxPopAll(st0, CancelKeys), NormalizeMale(msg), action)
        Decide(st0, confirm_yes, confirm_no) ==
            IF confirm_yes
            THEN Switched(SyncPersonaAndProfile([st0 EXCEPT !.persona_id = target_pid]),
                          NormalizeMale(<< "now_in_mode", target_pid, "laeo_khrap" >>))
            ELSE IF confirm_no \/ UnclearLimitReached(tries + 1)
            THEN Cancel(st0,
                        IF confirm_no THEN << "ok_keep_mode", "khrap" >>
                        ELSE << "still_unclear", target_pid, "keep_mode", "khrap" >>,
                        IF confirm_no THEN "persona_switch_cancelled"
                        ELSE "persona_switch_unclear_cancelled")
            ELSE Say(CtxPut(st0, "confirm_tries", tries + 1),
                     NormalizeMale(<< "will_switch_to", target_pid, "maiq_khrap" >>))
        Read(c) ==
            Decide(IF c.ask_llm THEN [st EXCEPT !.llm = Append(@, "confirm")] ELSE st,
                   c.yes, c.no)
    IN  IF target_pid = ""
        THEN Say(CtxPop(st, "awaiting_persona_confirmation"),
                 NormalizeMale(<< "cannot_switch_now", "khrap" >>))
        ELSE Read(ClassifyConfirmation(user_input, o.confirm))

(***************************************************************************)
(* PersonaSupervisor.handle                                                *)
(***************************************************************************)
\* the collaborators' call logs start empty at each handle() call
BeginTurn(st) ==
    [st EXCEPT !.queries = << >>, !.llm = << >>, !.strategy = << >>,
               !.at_dispatch = << >>, !.menus = 0,
               !.outcome = "returned", !.frozen = << >>]

\* the state handle() works on once the call logs are reset and
\* _sync_persona_and_profile has run
Entered(st) == SyncPersonaAndProfile(BeginTurn(st))

\* ... and once did_greet is set and the utterance is recorded
Greeted(st, user_input) == AddUser(CtxPut(Entered(st), "did_greet", TRUE), user_input)

\* the branch of handle() a call takes
Route(st, user_input, o) ==
    LET cur == st.persona_id
        Classified(ci) ==
            IF ci.intent = "CONFIRM_YESNO" THEN "confirmation"
            ELSE IF ci.intent = "EXPLICIT_SWITCH" /\ ci.kind = "no_target"
                 THEN "switch_no_target"
            ELSE IF /\ ci.intent = "EXPLICIT_SWITCH"
                    /\ \/ cur = "practical" /\ ci.wants_long
                       \/ cur = "academic" /\ ci.wants_short THEN "switch_style"
            ELSE IF Truthy(ci.st.ctx, "awaiting_persona_pick") THEN "persona_pick"
            ELSE IF ci.intent = "MODE_STATUS" THEN "mode_status"
            ELSE IF ci.intent \in {"GREETING", "NOISE"} THEN "greeting_menu"
            ELSE IF cur = "academic" THEN "route_academic"
            ELSE "route_practical"
    IN  IF /\ ~Truthy(st.ctx, "did_greet")
           /\ user_input = << >>
           /\ ~IsAcademicIntakeActive(st) THEN "first_touch"
        ELSE IF /\ IsAcademicIntakeActive(st)
                /\ ~Truthy(st.ctx, "awaiting_persona_confirmation") THEN "intake_lock"
        ELSE IF ShouldRoutePendingSlotNow(st, user_input) THEN "pending_slot"
        ELSE Classified(ClassifyIntent(st, user_input, o))

\* handle(): "First-touch: if no user input -> greeting"
OnFirstTouch(st, user_input, o) ==
    HandleGreeting(CtxPut(Entered(st), "did_greet", TRUE), << >>, o)

\* handle(): "Academic intake lock"
OnIntakeLock(st, user_input, o) ==
    DispatchAcademic(
        CtxPut(SyncPersonaAndProfile([Greeted(st, user_input) EXCEPT !.persona_id = "academic"]),
               "did_greet", TRUE),
        user_input, TRUE, o)

\* handle(): "Pending slot has priority (but not over switch/confirm)"
OnPendingSlot(st, user_input, o) ==
    RoutePendingSlotToPersona(Greeted(st, user_input), user_input, o)

\* the state _classify_intent leaves (the style classifier may have been called)
Classified(st, user_input, o) == ClassifyIntent(Greeted(st, user_input), user_input, o).st

\* handle(): intent CONFIRM_YESNO
OnConfirmation(st, user_input, o) ==
    HandlePersonaConfirmation(Classified(st, user_input, o), user_input, o)

\* the "which mode" question asked without awaiting_persona_pick being set
OnSwitchNoTargetNoFlag(st, user_input, o) ==
    LET msg == NormalizeMale(<< "which_mode", "khrap", "n1", "practical", "n2", "academic" >>)
    IN  [ st |-> [AddAssistant(Classified(st, user_input, o), msg)
                    EXCEPT !.last_action = "persona_pick_ask"],
          reply |-> msg ]

\* handle(): intent EXPLICIT_SWITCH of kind "no_target"
OnSwitchNoTarget(st, user_input, o) ==
    LET msg == NormalizeMale(<< "which_mode", "khrap", "n1", "practical", "n2", "academic" >>)
    IN  [ st |-> [AddAssistant(CtxPut(Classified(st, user_input, o),
                                      "awaiting_persona_pick", TRUE), msg)
                    EXCEPT !.last_action = "persona_pick_ask"],
          reply |-> msg ]

\* handle(): intent EXPLICIT_SWITCH with a style the other persona serves
OnSwitchStyle(st, user_input, o) ==
    EnterSwitchConfirmation(Classified(st, user_input, o),
                            IF st.persona_id = "practical" THEN "academic" ELSE "practical",
                            user_input)

\* handle(): awaiting_persona_pick
OnPersonaPick(st, user_input, o) ==
    HandlePersonaPick(Classified(st, user_input, o), user_input)

\* the mode-status answer discarding the pending slot
OnModeStatusDropsSlot(st, user_input, o) ==
    LET msg == NormalizeMale(<< "now_in_mode", st.persona_id, "khrap" >>)
    IN  [ st |-> [AddAssistant(CtxPop(Classified(st, user_input, o), "pending_slot"), msg)
                    EXCEPT !.last_action = "mode_status"],
          reply |-> msg ]

\* handle(): intent MODE_STATUS
OnModeStatus(st, user_input, o) ==
    LET msg == NormalizeMale(<< "now_in_mode", st.persona_id, "khrap" >>)
    IN  [ st |-> [AddAssistant(Classified(st, user_input, o), msg)
                    EXCEPT !.last_action = "mode_status"],
          reply |-> msg ]

\* handle(): "Greeting/noise always returns menu"
OnGreetingMenu(st, user_input, o) ==
    LET Greet(ci) ==
            HandleGreeting(ci.st, IF ci.intent = "GREETING" THEN user_input ELSE << >>, o)
    IN  Greet(ClassifyIntent(Greeted(st, user_input), user_input, o))

\* handle(): "Route by persona", academic
OnRouteAcademic(st, user_input, o) ==
    DispatchAcademic(Classified(st, user_input, o), user_input, FALSE, o)

\* handle(): "Practical legal must retrieve", then the practical strategy
OnRoutePractical(st, user_input, o) ==
    LET Gate(ci) ==
            DispatchPractical(
                IF ci.intent = "LEGAL_NEW"
                THEN EnsurePracticalRetrievalForLegal(ci.st, user_input) ELSE ci.st,
                user_input, o)
    IN  Gate(ClassifyIntent(Greeted(st, user_input), user_input, o))

\* PersonaSupervisor.handle(state, user_input): [st, reply]
Handle(st, user_input, o) ==
    LET Branch(b) ==
            CASE b = "first_touch" -> OnFirstTouch(st, user_input, o)
              [] b = "intake_lock" -> OnIntakeLock(st, user_input, o)
              [] b = "pending_slot" -> OnPendingSlot(st, user_input, o)
              [] b = "confirmation" -> OnConfirmation(st, user_input, o)
              [] b = "switch_no_target" -> OnSwitchNoTarget(st, user_input, o)
              [] b = "switch_style" -> OnSwitchStyle(st, user_input, o)
              [] b = "persona_pick" -> OnPersonaPick(st, user_input, o)
              [] b = "mode_status" -> OnModeStatus(st, user_input, o)
              [] b = "greeting_menu" -> OnGreetingMenu(st, user_input, o)
              [] b = "route_academic" -> OnRouteAcademic(st, user_input, o)
              [] OTHER -> OnRoutePractical(st, user_input, o)
    IN  Branch(Route(st, user_input, o))

(***************************************************************************)
(* The session as a state machine: one action per branch of handle()       *)
(***************************************************************************)
VARIABLES
    persona_id,            \* ConversationState.persona_id
    messages,              \* ConversationState.messages
    ctx,                   \* ConversationState.context
    current_docs,          \* ConversationState.current_docs
    last_retrieval_query,  \* ConversationState.last_retrieval_query
    round,                 \* ConversationState.round
    last_action,           \* ConversationState.last_action
    queries,               \* queries the retriever received in the last call
    llm,                   \* model calls made in the last call
    strategy,              \* strategy invocations of the last call
    at_dispatch,           \* what each of these invocations found
    menus,                 \* topic menus composed in the last call
    outcome,               \* how the last call ended
    faults,                \* the collaborators that misbehave
    store,                 \* the StateManager's directory and its callers
    call,                  \* a function called on its own: arguments, result
    turn,                  \* handle() calls made so far
    input,                 \* the utterance of the last call
    reply,                 \* the reply of the last call
    branch,                \* the branch of handle() the last call took
    force_empty            \* SpyRetriever.force_empty: the retriever finds nothing

vars ==
    << persona_id, messages, ctx, current_docs, last_retrieval_query, round,
       last_action, queries, llm, strategy, at_dispatch, menus, outcome,
       faults, store, call, turn, input, reply, branch, force_empty >>

\* the session state as one value
State ==
    [ persona_id |-> persona_id, messages |-> messages, ctx |-> ctx,
      current_docs |-> current_docs, last_retrieval_query |-> last_retrieval_query,
      round |-> round, last_action |-> last_action, queries |-> queries,
      llm |-> llm, strategy |-> strategy, at_dispatch |-> at_dispatch,
      menus |-> menus, faults |-> faults, outcome |-> outcome, frozen |-> << >>,
      force_empty |-> force_empty ]

\* the answers of the collaborators when nothing else is chosen
DefaultOracle ==
    [ rng |-> 0, prefix |-> "none", style |-> "low", confirm |-> "low",
      pdec |-> << D_answer >>, acad |-> "answer" ]

\* k "retrieve" decisions
RECURSIVE Retrieves(_)
Retrieves(k) == IF k = 0 THEN << >> ELSE << D_retrieve >> \o Retrieves(k - 1)

\* the decision sequences of the practical model within one call: a question
\* with options, or an answer after at most MaxRedispatch retrievals
PracticalDecisions ==
    { << D_ask >> } \cup { Retrieves(k) \o << D_answer >> : k \in 0..MaxRedispatch }

\* the answers of a model that says "retrieve" whenever it is asked, as far
\* as the bound follows them
RetrieveForever == Retrieves(MaxRedispatch + 1)

\* the style classifier is consulted for texts _STYLE_LIKELY_RE matches
StyleOracles(u) ==
    { [DefaultOracle EXCEPT !.style = s] :
          s \in IF StyleLikely(u) THEN StyleAnswers ELSE { "low" } }

\* oracles of a greeting menu: the session seed when none is stored yet, and
\* the answer of the prefix model
MenuOracles(st, base) ==
    { [base EXCEPT !.rng = r, !.prefix = p] :
          r \in IF Has(st.ctx, "rng_seed") THEN { st.ctx["rng_seed"] } ELSE Seeds,
          p \in GreetPrefixAnswers }

\* oracles of a dispatch to the strategy of persona pid
StrategyOracles(st, pid, base) ==
    IF pid = "academic"
    THEN UNION { IF Truthy(st.ctx, "auto_return_after_academic_done")
                 THEN MenuOracles(st, [base EXCEPT !.acad = a])
                 ELSE { [base EXCEPT !.acad = a] } : a \in AcademicAnswers }
    ELSE { [base EXCEPT !.pdec = d] :
               d \in IF "model" \in st.faults THEN { RetrieveForever }
                     ELSE PracticalDecisions }

\* the confirmation classifier is consulted for unclear replies
ConfirmOracles(u) ==
    { [DefaultOracle EXCEPT !.confirm = c] :
          c \in IF ClassifyConfirmation(u, "low").ask_llm THEN ConfirmAnswers ELSE { "low" } }

\* a confirmed switch replays the utterance that asked for it through the
\* strategy of the pending persona
ReplayOracles(st, u, c) ==
    IF /\ ClassifyConfirmation(u, c.confirm).yes
       /\ Get(st.ctx, "pending_replay_user_input", << >>) # << >>
    THEN StrategyOracles(st, Get(st.ctx, "pending_persona", "practical"), c)
    ELSE { c }

\* the sessions left by a script of handle() calls, made with the default
\* answers on each session of S
RECURSIVE RunScript(_, _)
RunScript(S, script) ==
    IF script = << >> THEN S
    ELSE RunScript({ Handle(st, Head(script), DefaultOracle).st : st \in S }, Tail(script))

\* The calls already made when a run starts, for a session that began in the
\* practical persona: none; a greeting (a topic menu is pending); a switch
\* request without a target (the "which mode" question is pending); a
\* detailed-style request (a switch to academic is proposed), followed by an
\* unclear reply, or by yes (the academic intake has started), a slot reply
\* and a section reply (the detour is over), and a second detailed-style
\* request; a greeting, a detailed-style request and yes (the intake has
\* started while the topic menu is still pending); a legal question (its
\* documents are cached).
PracticalScripts ==
    { << >>,
      << U_greet >>,
      << U_greet, U_long, U_yes >>,
      << U_switch >>,
      << U_long >>,
      << U_long, U_filler >>,
      << U_long, U_yes >>,
      << U_long, U_yes, U_1 >>,
      << U_long, U_yes, U_1, U_1 >>,
      << U_long, U_yes, U_1, U_1, U_long >>,
      << U_legal >> }

\* ... and for a session that began in the academic persona: none; a legal
\* question (the intake has started), followed by a slot reply; a
\* short-style request (a switch to practical is proposed)
AcademicScripts ==
    { << >>,
      << U_legal >>,
      << U_legal, U_1 >>,
      << U_short >> }

\* the sessions a run starts from, each with a retriever that finds
\* documents or one that finds nothing
InitialSessions ==
    UNION { UNION { RunScript({ FreshState("practical", e) }, s) : s \in PracticalScripts }
            \cup UNION { RunScript({ FreshState("academic", e) }, s) : s \in AcademicScripts }
            : e \in BOOLEAN }

\* a run starts from one of these sessions, with the collaborators in fs
\* misbehaving from now on
Idle(st) ==
    /\ outcome = "returned"
    /\ force_empty = st.force_empty
    /\ persona_id = st.persona_id
    /\ messages = st.messages
    /\ ctx = st.ctx
    /\ current_docs = st.current_docs
    /\ last_retrieval_query = st.last_retrieval_query
    /\ round = st.round
    /\ last_action = st.last_action
    /\ queries = << >>
    /\ llm = << >>
    /\ strategy = << >>
    /\ at_dispatch = << >>
    /\ menus = 0
    /\ turn = 0
    /\ input = << >>
    /\ reply = << >>
    /\ branch = "none"

SessionStart(fs) ==
    \E st \in InitialSessions :
        /\ faults = fs
        /\ store = << >>
        /\ call = << >>
        /\ Idle(st)

\* the collaborators behave as the fakes of the test suite do
Init == SessionStart({})

\* one collaborator misbehaves
Faults == { "search", "model" }
InitAdverse == \E f \in Faults : SessionStart({ f })

\* what a handle() call leaves: r is the pair it returns, b the branch it
\* took, u its utterance
Left(fin, r, b, u) ==
    /\ persona_id' = fin.persona_id
    /\ messages' = fin.messages
    /\ ctx' = fin.ctx
    /\ current_docs' = fin.current_docs
    /\ last_retrieval_query' = fin.last_retrieval_query
    /\ round' = fin.round
    /\ last_action' = fin.last_action
    /\ queries' = fin.queries
    /\ llm' = fin.llm
    /\ strategy' = fin.strategy
    /\ at_dispatch' = fin.at_dispatch
    /\ menus' = fin.menus
    /\ outcome' = r.st.outcome
    /\ reply' = IF r.st.frozen # << >> THEN << >> ELSE r.reply
    /\ turn' = turn + 1
    /\ input' = u
    /\ branch' = b
    /\ UNCHANGED << force_empty, faults, store, call >>

Return(r, b, u) == Left(IF r.st.frozen # << >> THEN r.st.frozen[1] ELSE r.st, r, b, u)

\* first call with a blank utterance: the opening menu
FirstTouchGreeting ==
    /\ turn < MaxTurns
    /\ \E u \in Utterances :
          /\ Route(State, u, DefaultOracle) = "first_touch"
          /\ \E o \in MenuOracles(State, DefaultOracle) :
                Return(OnFirstTouch(State, u, o), "first_touch", u)

\* academic intake lock
IntakeLock ==
    /\ turn < MaxTurns
    /\ \E u \in Utterances :
          /\ Route(State, u, DefaultOracle) = "intake_lock"
          /\ \E o \in StrategyOracles(State, "academic", DefaultOracle) :
                Return(OnIntakeLock(State, u, o), "intake_lock", u)

\* a reply to a pending slot
PendingSlotRoute ==
    /\ turn < MaxTurns
    /\ \E u \in Utterances \cup SlotReplies \cup NumberedQuestions :
          /\ Route(State, u, DefaultOracle) = "pending_slot"
          /\ \E o \in StrategyOracles(State, persona_id, DefaultOracle) :
                Return(OnPendingSlot(State, u, o), "pending_slot", u)

\* a reply to a pending switch confirmation
Confirmation ==
    /\ turn < MaxTurns
    /\ \E u \in Utterances \cup MixedReplies :
          /\ Route(State, u, DefaultOracle) = "confirmation"
          /\ \E c \in ConfirmOracles(u) :
                \E o \in ReplayOracles(State, u, c) :
                    Return(OnConfirmation(State, u, o), "confirmation", u)

\* a switch request that names no persona
SwitchNoTarget ==
    /\ turn < MaxTurns
    /\ \E u \in Utterances :
          /\ Route(State, u, DefaultOracle) = "switch_no_target"
          /\ Return(OnSwitchNoTarget(State, u, DefaultOracle), "switch_no_target", u)

\* a style request that proposes a switch
SwitchStyle ==
    /\ turn < MaxTurns
    /\ \E u \in Utterances : \E s \in StyleOracles(u) :
          /\ Route(State, u, s) = "switch_style"
          /\ Return(OnSwitchStyle(State, u, s), "switch_style", u)

\* a reply to the "which mode" question
PersonaPick ==
    /\ turn < MaxTurns
    /\ \E u \in Utterances : \E s \in StyleOracles(u) :
          /\ Route(State, u, s) = "persona_pick"
          /\ Return(OnPersonaPick(State, u, s), "persona_pick", u)

\* a mode-status question
ModeStatus ==
    /\ turn < MaxTurns
    /\ \E u \in Utterances :
          /\ Route(State, u, DefaultOracle) = "mode_status"
          /\ Return(OnModeStatus(State, u, DefaultOracle), "mode_status", u)

\* greeting, thanks, small talk or noise: a topic menu
GreetingMenu ==
    /\ turn < MaxTurns
    /\ \E u \in Utterances : \E s \in StyleOracles(u) :
          /\ Route(State, u, s) = "greeting_menu"
          /\ \E o \in MenuOracles(State, s) :
                Return(OnGreetingMenu(State, u, o), "greeting_menu", u)

\* routing to the academic strategy
RouteAcademic ==
    /\ turn < MaxTurns
    /\ \E u \in Utterances : \E s \in StyleOracles(u) :
          /\ Route(State, u, s) = "route_academic"
          /\ \E o \in StrategyOracles(State, "academic", s) :
                Return(OnRouteAcademic(State, u, o), "route_academic", u)

\* routing to the practical strategy
RoutePractical ==
    /\ turn < MaxTurns
    /\ \E u \in Utterances \cup FollowUps : \E s \in StyleOracles(u) :
          /\ Route(State, u, s) = "route_practical"
          /\ \E o \in StrategyOracles(State, "practical", s) :
                Return(OnRoutePractical(State, u, o), "route_practical", u)

Next ==
    \/ FirstTouchGreeting
    \/ IntakeLock
    \/ PendingSlotRoute
    \/ Confirmation
    \/ SwitchNoTarget
    \/ SwitchStyle
    \/ PersonaPick
    \/ ModeStatus
    \/ GreetingMenu
    \/ RouteAcademic
    \/ RoutePractical

Spec == Init /\ [][Next]_vars

\* the same calls with a collaborator that misbehaves
SpecAdverse == InitAdverse /\ [][Next]_vars

\* sessions a caller builds as the test suite does (context.update on a
\* state): a switch confirmation in flight written onto a session whose
\* academic intake is in a lock stage
BuiltSessions ==
    { CtxUpdate(st, [ awaiting_persona_confirmation |-> TRUE,
                      pending_persona |-> "practical" ]) :
      st \in { s \in InitialSessions : IsAcademicIntakeActive(s) } }

InitBuilt ==
    \E st \in InitialSessions \cup BuiltSessions :
        /\ faults = {}
        /\ store = << >>
        /\ call = << >>
        /\ Idle(st)

\* the same calls, on the sessions handle() leaves and on the built ones
SpecBuilt == InitBuilt /\ [][Next]_vars

(***************************************************************************)
(* Properties of the session                                               *)
(***************************************************************************)
\* C1: on every call handled as greeting, noise or thanks, the first-touch
\* blank greeting included, the retriever receives no query.  Not so: a
\* session without a cached topic pool builds the pool from the seed queries.
C1_GreetingNeverRetrieves ==
    branch \in { "first_touch", "greeting_menu" } => queries = << >>

\* C2: a handle() call never shortens the history and leaves every entry
\* that was in it at its index, with its role and content.
C2_MessagesAppendOnly ==
    [][ /\ Len(messages') >= Len(messages)
        /\ SubSeq(messages', 1, Len(messages)) = messages ]_vars

\* a call on a session with a history in which a strategy ran and several
\* entries were appended
C2_Witness ==
    /\ turn > 0
    /\ strategy # << >>
    /\ \E i \in 1..(Len(messages) - 2) :
          /\ messages[i].role = "assistant"
          /\ messages[i + 1].role = "user"
          /\ messages[i + 1].content = input
          /\ messages[i + 2].role = "assistant"

\* the call starts under the academic intake lock: an intake stage is active
\* and no confirmation is in flight
UnderIntakeLock ==
    /\ Get(ctx, "academic_flow", "") \in { "awaiting_slots", "awaiting_sections" }
    /\ ~Truthy(ctx, "awaiting_persona_confirmation")

\* the call made exactly one strategy invocation: the academic strategy, on
\* the utterance as typed, with the intake forced
LockDispatched ==
    strategy' = << [persona |-> "academic", input |-> input', force_intake |-> TRUE] >>

\* the call started no switch proposal and asked no "which mode" question
NoProposalStarted ==
    /\ ~Truthy(ctx', "awaiting_persona_confirmation")
    /\ ~Has(ctx', "pending_persona")
    /\ Truthy(ctx', "awaiting_persona_pick") = Truthy(ctx, "awaiting_persona_pick")

\* the call composed no topic menu and left pending_slot as it was
NoMenuNoSlotChange ==
    /\ menus' = 0
    /\ Has(ctx', "pending_slot") = Has(ctx, "pending_slot")
    /\ Get(ctx', "pending_slot", << >>) = Get(ctx, "pending_slot", << >>)

\* the call ended the academic flow while the auto-return flag was set
EndedDetour ==
    /\ Truthy(ctx, "auto_return_after_academic_done")
    /\ Get(ctx', "academic_flow", "") = "done"

\* C3 as stated: under the intake lock every utterance goes to the academic
\* strategy, no topic menu is composed, pending_slot is neither resolved nor
\* removed, and no switch proposal is started.
C3_LockNeverComposesMenu ==
    [][ UnderIntakeLock =>
            LockDispatched /\ NoProposalStarted /\ NoMenuNoSlotChange ]_vars

\* C3, amended: under the intake lock every utterance goes to the academic
\* strategy and no switch proposal is started; no topic menu is composed and
\* pending_slot is left as it was, unless the dispatch ends the flow while
\* the auto-return flag is set: Auto-Return then composes one menu and stores
\* it as pending_slot.
C3_LockDispatchesToAcademic ==
    [][ UnderIntakeLock =>
            /\ LockDispatched
            /\ NoProposalStarted
            /\ IF EndedDetour
               THEN /\ menus' = 1
                    /\ Has(ctx', "pending_slot")
                    /\ ctx'["pending_slot"].key = "topic"
               ELSE NoMenuNoSlotChange ]_vars

\* a greeting typed under the lock, with a topic menu still pending: the
\* academic strategy ran, no menu was composed, the slot is still there
C3_Witness ==
    /\ branch = "intake_lock"
    /\ input = U_greet
    /\ strategy = << [persona |-> "academic", input |-> U_greet, force_intake |-> TRUE] >>
    /\ menus = 0
    /\ Has(ctx, "pending_slot")
    /\ Get(ctx, "academic_flow", "") \in { "awaiting_slots", "awaiting_sections" }

\* the call proposed a switch: a style request, or a reply to the "which
\* mode" question that names a persona, answered with the yes/no question
ProposedSwitch ==
    /\ branch' \in { "switch_style", "persona_pick" }
    /\ reply' # << >>
    /\ Head(reply') = "switch_to_mode"

\* the call answered a pending confirmation with yes
ConfirmedYes ==
    /\ Truthy(ctx, "awaiting_persona_confirmation")
    /\ branch' = "confirmation"
    /\ last_action' \in { "persona_switch_applied", "persona_switch_applied_replayed" }

\* C4: the call that proposes a switch leaves persona_id as it was and sets
\* awaiting_persona_confirmation and pending_persona; persona_id changes
\* only in a call that answers a pending confirmation with yes, by
\* Auto-Return (to practical) or under the academic intake lock (to
\* academic).
C4_SwitchNeedsConfirmation ==
    [][ /\ ProposedSwitch =>
              /\ persona_id' = persona_id
              /\ Truthy(ctx', "awaiting_persona_confirmation")
              /\ Get(ctx', "pending_persona", "") \in { "practical", "academic" }
        /\ persona_id' # persona_id =>
              \/ ConfirmedYes /\ persona_id' = ctx["pending_persona"]
              \/ EndedDetour /\ persona_id' = "practical"
              \/ UnderIntakeLock /\ persona_id' = "academic" ]_vars

\* a detailed-style request in the practical persona: the switch to
\* academic is proposed and the persona is still practical
C4_Witness ==
    /\ branch = "switch_style"
    /\ input = U_long
    /\ persona_id = "practical"
    /\ Truthy(ctx, "awaiting_persona_confirmation")
    /\ Get(ctx, "pending_persona", "") = "academic"

\* no key of the confirmation context is left
ConfirmationCleared ==
    \A i \in DOMAIN ConfirmKeys : ~Has(ctx', ConfirmKeys[i])

\* C5 as stated: when a pending confirmation for target T is answered
\* yes, the call leaves persona_id = T and none of pending_persona,
\* pending_replay_user_input, awaiting_persona_confirmation, confirm_tries.
C5_YesSwitchesToTarget ==
    [][ ConfirmedYes /\ Has(ctx, "pending_persona") =>
            /\ persona_id' = ctx["pending_persona"]
            /\ ConfirmationCleared ]_vars

\* a confirmation is pending
ConfirmationPending ==
    /\ Truthy(ctx, "awaiting_persona_confirmation")
    /\ Has(ctx, "pending_persona")

\* C6: while a confirmation is pending, a reply that is only a politeness
\* particle leaves persona_id as it was, counts as an unclear attempt (the
\* first one re-prompts with confirm_tries = 1, the second one cancels) and
\* makes no call of the confirmation classifier, whatever that classifier
\* would answer.
C6_ParticleIsUnclear ==
    ConfirmationPending =>
        \A p \in { << "khrap" >>, << "khap" >>, << "kha_f" >>, << "kha" >> } :
            \A c \in ConfirmAnswers :
                LET r == Handle(State, p, [DefaultOracle EXCEPT !.confirm = c]).st
                IN  /\ r.persona_id = persona_id
                    /\ "confirm" \notin Range(r.llm)
                    /\ r.strategy = << >>
                    /\ IF Get(ctx, "confirm_tries", 0) = 0
                       THEN /\ Truthy(r.ctx, "awaiting_persona_confirmation")
                            /\ Get(r.ctx, "confirm_tries", 0) = 1
                       ELSE /\ r.last_action = "persona_switch_unclear_cancelled"
                            /\ ~Has(r.ctx, "awaiting_persona_confirmation")

\* "ครับ" typed while a switch to academic is proposed: still practical, one
\* unclear attempt counted, the classifier not consulted
C6_Witness ==
    /\ branch = "confirmation"
    /\ input = U_filler
    /\ persona_id = "practical"
    /\ Get(ctx, "pending_persona", "") = "academic"
    /\ Get(ctx, "confirm_tries", 0) = 1
    /\ llm = << >>

\* C7: a pending confirmation takes every call; a call that leaves it
\* pending is the first unclear reply (confirm_tries goes from 0 to 1,
\* persona_id unchanged); any other call removes the confirmation context,
\* and the second unclear reply does so leaving persona_id unchanged.  A
\* confirmation is thus over within 2 calls after the proposal.
C7_ConfirmationEndsInTwoTurns ==
    [][ ConfirmationPending =>
            /\ branch' = "confirmation"
            /\ IF Truthy(ctx', "awaiting_persona_confirmation")
               THEN /\ Get(ctx, "confirm_tries", 0) = 0
                    /\ Get(ctx', "confirm_tries", 0) = 1
                    /\ persona_id' = persona_id
               ELSE ConfirmationCleared
            /\ last_action' = "persona_switch_unclear_cancelled" =>
                  /\ Get(ctx, "confirm_tries", 0) = 1
                  /\ persona_id' = persona_id ]_vars

\* the second unclear reply in a row: the proposal is cancelled and the
\* persona is the one that was current
C7_Witness ==
    /\ branch = "confirmation"
    /\ last_action = "persona_switch_unclear_cancelled"
    /\ ~Has(ctx, "awaiting_persona_confirmation")
    /\ ~Has(ctx, "confirm_tries")
    /\ persona_id = "practical"
    /\ Head(reply) = "still_unclear"

\* the call answered a pending confirmation with no
AnsweredNo ==
    /\ ConfirmationPending
    /\ \/ last_action' = "persona_switch_cancelled"
       \/ ClassifyYesNoDet(input').no

\* C8: a pending confirmation answered no leaves persona_id, pending_slot,
\* current_docs and last_retrieval_query as they were, invokes no strategy,
\* and removes pending_persona, pending_replay_user_input,
\* awaiting_persona_confirmation and confirm_tries.
C8_NoLeavesSessionUnchanged ==
    [][ AnsweredNo =>
            /\ persona_id' = persona_id
            /\ Has(ctx', "pending_slot") = Has(ctx, "pending_slot")
            /\ Get(ctx', "pending_slot", << >>) = Get(ctx, "pending_slot", << >>)
            /\ current_docs' = current_docs
            /\ last_retrieval_query' = last_retrieval_query
            /\ strategy' = << >>
            /\ ConfirmationCleared ]_vars

\* "ยกเลิก" typed while a switch is proposed and a topic menu is pending:
\* the menu is still pending, the proposal is gone
C8_Witness ==
    /\ branch = "confirmation"
    /\ input = U_no
    /\ last_action = "persona_switch_cancelled"
    /\ Has(ctx, "pending_slot")
    /\ current_docs # << >>
    /\ ~Has(ctx, "pending_persona")

\* C9: without a confirmation in flight and outside the intake lock, an
\* utterance with a switch verb and a mode marker that names no persona sets
\* awaiting_persona_pick, leaves persona_id as it was, starts no
\* confirmation, and is answered with both "1) practical" and "2) academic",
\* with or without a pending slot.
C9_SwitchWithoutTargetAsksPick ==
    [][ /\ ~Truthy(ctx, "awaiting_persona_confirmation")
        /\ ~UnderIntakeLock
        /\ HasAny(SWITCH_VERBS, NormalizeForIntent(input'))
        /\ HasAny(SWITCH_MARKERS, NormalizeForIntent(input'))
        /\ ~HasAny(SwitchTargetWords, NormalizeForIntent(input'))
        => /\ Truthy(ctx', "awaiting_persona_pick")
           /\ persona_id' = persona_id
           /\ ~Truthy(ctx', "awaiting_persona_confirmation")
           /\ ~Has(ctx', "pending_persona")
           /\ IsInfix(<< "n1", "practical" >>, reply')
           /\ IsInfix(<< "n2", "academic" >>, reply') ]_vars

\* "เปลี่ยนโหมด" typed while a topic menu is pending
C9_Witness ==
    /\ branch = "switch_no_target"
    /\ input = U_switch
    /\ Truthy(ctx, "awaiting_persona_pick")
    /\ Has(ctx, "pending_slot")
    /\ IsInfix(<< "n1", "practical", "n2", "academic" >>, reply)

\* the call dispatched to the academic strategy
AcademicDispatched ==
    \E i \in DOMAIN strategy' : strategy'[i].persona = "academic"

\* the reply ends with the last answer of the strategy, a blank line, a
\* prefix that is not the introduction and the numbered options of the
\* pending slot
AnswerThenMenu ==
    \E i \in DOMAIN messages' : \E p \in { "prefix_ack", "llm_prefix" } :
        /\ i > Len(messages)
        /\ messages'[i].role = "assistant"
        /\ IsSuffix(NormalizeMale(messages'[i].content \o << "nl", "nl", p, "nl" >>
                        \o FormatNumberedOptions(ctx'["pending_slot"].options, 9)),
                    reply')
        /\ branch' # "confirmation" =>
              reply' = NormalizeMale(messages'[i].content \o << "nl", "nl", p, "nl" >>
                           \o FormatNumberedOptions(ctx'["pending_slot"].options, 9))

\* C10: a call that dispatches to the academic strategy (route, intake lock,
\* pending slot or replay) and ends with academic_flow.stage = done: with the
\* auto-return flag set, persona_id is practical, the flag is removed, one
\* topic menu is composed and stored as pending_slot, and the reply is the
\* strategy's answer followed by that menu without the introduction; with
\* the flag not set, persona_id stays academic.
C10_AutoReturnAfterDone ==
    [][ AcademicDispatched /\ Get(ctx', "academic_flow", "") = "done" =>
            IF Truthy(ctx, "auto_return_after_academic_done")
            THEN /\ persona_id' = "practical"
                 /\ ~Has(ctx', "auto_return_after_academic_done")
                 /\ menus' = 1
                 /\ Has(ctx', "pending_slot")
                 /\ ctx'["pending_slot"].key = "topic"
                 /\ ctx'["pending_slot"].options = ctx'["last_menu_topics"]
                 /\ ctx'["pending_slot"].options # << >>
                 /\ "prefix_intro" \notin Range(reply')
                 /\ AnswerThenMenu
            ELSE /\ persona_id' = "academic"
                 /\ menus' = 0 ]_vars

\* the intake of a detour ended under the lock: the answer came with a menu
\* and the session is practical again
C10_Witness ==
    /\ branch = "intake_lock"
    /\ Get(ctx, "academic_flow", "") = "done"
    /\ persona_id = "practical"
    /\ ~Has(ctx, "auto_return_after_academic_done")
    /\ menus = 1
    /\ Has(ctx, "pending_slot")
    /\ Head(reply) = "academic_answer"

\* the auto-return flag is set only for a session that left the practical
\* persona for the academic one, or is asked to confirm doing so
FlagMeansDetour ==
    Truthy(ctx, "auto_return_after_academic_done") =>
        /\ Get(ctx, "switch_origin_persona", "") = "practical"
        /\ \/ /\ Truthy(ctx, "awaiting_persona_confirmation")
              /\ Get(ctx, "pending_persona", "") = "academic"
           \/ persona_id = "academic"

\* C11: a proposal leaves the auto-return flag set exactly when it goes from
\* practical to academic; the flag is absent after a confirmation answered
\* no or cancelled as unclear; it appears only in a practical-to-academic
\* proposal, and Auto-Return acts only in a call that started with the flag
\* of such a detour.
C11_FlagOnlyForDetour ==
    [][ /\ ProposedSwitch =>
              (Truthy(ctx', "auto_return_after_academic_done")
                  <=> (persona_id = "practical" /\ ctx'["pending_persona"] = "academic"))
        /\ last_action' \in { "persona_switch_cancelled", "persona_switch_unclear_cancelled" }
              /\ branch' = "confirmation"
              => ~Has(ctx', "auto_return_after_academic_done")
        /\ ~Truthy(ctx, "auto_return_after_academic_done")
              /\ Truthy(ctx', "auto_return_after_academic_done")
              => ProposedSwitch /\ persona_id = "practical"
        /\ last_action' = "academic_done_auto_return_to_practical" /\ menus' > 0
              => FlagMeansDetour /\ Truthy(ctx, "auto_return_after_academic_done")
        /\ FlagMeansDetour' ]_vars

\* the "which mode" question answered "1" in the practical persona: a
\* proposal that is not a detour, and no flag
C11_Witness ==
    /\ branch = "persona_pick"
    /\ Head(reply) = "switch_to_mode"
    /\ persona_id = "practical"
    /\ Get(ctx, "pending_persona", "") = "practical"
    /\ ~Has(ctx, "auto_return_after_academic_done")

\* the three corrective messages, as they are sent
MultiOnlyMessage == NormalizeMale(<< "err_multi_only" >>)
AnswerNumberMessage == NormalizeMale(<< "err_answer_number" >>)
OutOfRangeMessage == NormalizeMale(<< "err_out_of_range" >>)

\* a call of the pending-slot branch that rejected the reply
SlotRejected ==
    /\ branch' = "pending_slot"
    /\ reply' \in { MultiOnlyMessage, AnswerNumberMessage, OutOfRangeMessage }

\* a call of the pending-slot branch that resolved the reply
SlotResolved == branch' = "pending_slot" /\ ~SlotRejected

\* the slot stored after the call was written during the call: the menu of
\* an Auto-Return, or the numbered options of the strategy's own question
SlotWrittenThisCall ==
    \/ menus' > 0 /\ ctx'["pending_slot"].options = ctx'["last_menu_topics"]
    \/ ExtractNumberedOptions(reply', 9) = ctx'["pending_slot"].options

\* C12: a pending-slot resolution starts from a stored slot, removes it
\* before the strategy of the active persona is invoked, invokes that
\* strategy exactly once with the label of the chosen option as utterance
\* (the first option for the reply "1"), and leaves no slot behind except
\* one written anew during the same call, so the consumed slot cannot be
\* resolved by a later turn.
C12_SlotConsumedBeforeDispatch ==
    [][ /\ branch' = "pending_slot" => HasPendingSlot(State)
        /\ SlotResolved =>
              /\ Len(strategy') = 1
              /\ Len(at_dispatch') = 1
              /\ ~at_dispatch'[1].slot
              /\ strategy'[1].persona = persona_id
              /\ strategy'[1].input =
                    MapPendingSlotReply(ctx["pending_slot"], input').mapped
              /\ strategy'[1].input # << >>
              /\ ~ctx["pending_slot"].allow_multi
                    => \E i \in DOMAIN ctx["pending_slot"].options :
                          strategy'[1].input = << ctx["pending_slot"].options[i] >>
              /\ input' = U_1 => strategy'[1].input = << ctx["pending_slot"].options[1] >>
              /\ Has(ctx', "pending_slot") => SlotWrittenThisCall ]_vars

\* the reply "1" to a topic menu: the practical strategy was invoked once
\* with the first topic, found no slot, and none is stored afterwards
C12_Witness ==
    /\ branch = "pending_slot"
    /\ input = U_1
    /\ Len(strategy) = 1
    /\ strategy[1].persona = "practical"
    /\ strategy[1].input = Get(ctx, "last_topic", << >>)
    /\ Len(strategy[1].input) = 1
    /\ ~at_dispatch[1].slot
    /\ ~Has(ctx, "pending_slot")

\* why a reply to a slot is rejected, read from the reply and the slot
RejectionReason(slot, u) ==
    IF Range(u) \cap AllWords # {}
    THEN IF slot.allow_multi THEN "none" ELSE "all_on_single"
    ELSE IF \A i \in DOMAIN u : IsDigitTok(u[i]) /\ TokDigits[u[i]] = << >>
         THEN "no_number"
    ELSE IF \/ /\ u \in { U_1, U_2, U_9 }
               /\ TokDigits[u[1]][1] > Len(slot.options)
            \/ /\ u = U_feepp20
               /\ 20 > Len(slot.options)
         THEN "out_of_range"
    ELSE "none"

\* C13: a reply to a pending slot is rejected exactly for one of the three
\* reasons (an "all" marker on a single-choice slot, no number, every index
\* out of range); the rejection leaves the context (pending_slot with it),
\* persona_id and current_docs as they were, invokes no strategy and makes
\* no search, and answers with the message of its reason, the three
\* messages being different.
C13_RejectedReplyKeepsSlot ==
    [][ /\ Cardinality({ MultiOnlyMessage, AnswerNumberMessage, OutOfRangeMessage }) = 3
        /\ branch' = "pending_slot" =>
              (SlotRejected <=> RejectionReason(ctx["pending_slot"], input') # "none")
        /\ SlotRejected =>
              /\ Has(ctx', "pending_slot")
              /\ ctx'["pending_slot"] = ctx["pending_slot"]
              /\ ctx' = ctx
              /\ strategy' = << >>
              /\ queries' = << >>
              /\ persona_id' = persona_id
              /\ current_docs' = current_docs
              /\ last_action' = "pending_slot_invalid_reply"
              /\ reply' =
                    CASE RejectionReason(ctx["pending_slot"], input') = "all_on_single"
                           -> MultiOnlyMessage
                      [] RejectionReason(ctx["pending_slot"], input') = "no_number"
                           -> AnswerNumberMessage
                      [] OTHER -> OutOfRangeMessage ]_vars

\* the reply "9" to a menu of five topics: rejected as out of range, the
\* menu still pending
C13_Witness ==
    /\ branch = "pending_slot"
    /\ input = U_9
    /\ last_action = "pending_slot_invalid_reply"
    /\ reply = OutOfRangeMessage
    /\ HasPendingSlot(State)
    /\ Len(ctx["pending_slot"].options) = MENU_SIZE
    /\ strategy = << >>

\* the topics listed by the menu stored in the context
MenuTopics == ctx["pending_slot"].options

\* C14: the menu of a greeting, noise or thanks turn (and of the first
\* touch) lists exactly MENU_SIZE sanitized topics, none repeated, stored as
\* the topic slot and as last_menu_topics and numbered in the reply,
\* whenever the topic pool holds MENU_SIZE distinct valid labels or more,
\* whether the related-topic lookup found two topics, or none.
C14_MenuHasFiveDistinctTopics ==
    branch \in { "first_touch", "greeting_menu" }
    /\ Has(ctx, "topic_pool")
    /\ Cardinality(Range(PoolLabels(ctx["topic_pool"])) \ InvalidLabels) >= MENU_SIZE
    => /\ menus = 1
       /\ Has(ctx, "pending_slot")
       /\ ctx["pending_slot"].key = "topic"
       /\ Len(MenuTopics) = MENU_SIZE
       /\ Cardinality(Range(MenuTopics)) = MENU_SIZE
       /\ Range(MenuTopics) \cap InvalidLabels = {}
       /\ ctx["last_menu_topics"] = MenuTopics
       /\ IsSuffix(FormatNumberedOptions(MenuTopics, 9), reply)
       /\ ExtractNumberedOptions(reply, 9) = MenuTopics

\* a greeting turn with the pool cached and a last query: the one search of
\* the turn is the related-topic lookup, it found documents, and the menu
\* lists five distinct topics
C14_Witness ==
    /\ branch = "greeting_menu"
    /\ Len(queries) = 1
    /\ ~force_empty
    /\ menus = 1
    /\ Len(MenuTopics) = MENU_SIZE
    /\ Cardinality(Range(MenuTopics)) = MENU_SIZE

\* the stored slot is a topic menu written by a greeting turn
GreetingMenuPending ==
    /\ last_action \in { "greeting_first_menu", "greeting_with_menu_refresh" }
    /\ Has(ctx, "pending_slot")
    /\ ctx["pending_slot"].key = "topic"
    /\ ctx["pending_slot"].options = Get(ctx, "last_menu_topics", << >>)

\* C15: with a topic pool of 8 distinct labels or more, the menu written by
\* a greeting turn differs, as a sequence, from the menu written by the
\* greeting turn before it, whatever the sampling draws.
C15_ConsecutiveMenusDiffer ==
    [][ /\ GreetingMenuPending
        /\ branch' \in { "first_touch", "greeting_menu" }
        /\ Has(ctx', "topic_pool")
        /\ Cardinality(Range(PoolLabels(ctx'["topic_pool"]))) >= 8
        => ctx'["pending_slot"].options # ctx["pending_slot"].options ]_vars

\* C16, as the code has it: a greeting menu carries the introduction exactly
\* when it is the first greeting menu of the session (greet_menu_turns was
\* 0), every later greeting menu carries the acknowledgement or the
\* sentence of the language model instead, and a menu appended by
\* Auto-Return never carries the introduction.  Auto-Return does not count
\* as a greeting menu, so the menu with the introduction may come after one.
C16_IntroOnFirstGreetingMenu ==
    /\ branch \in { "first_touch", "greeting_menu" } =>
          /\ menus = 1
          /\ ctx["greet_menu_turns"] >= 1
          /\ last_action = "greeting_first_menu" <=> ctx["greet_menu_turns"] = 1
          /\ last_action \in { "greeting_first_menu", "greeting_with_menu_refresh" }
          /\ Head(reply) = "prefix_intro" => ctx["greet_menu_turns"] = 1
          /\ ctx["greet_menu_turns"] = 1 => Head(reply) \in { "prefix_intro", "llm_prefix" }
          /\ ctx["greet_menu_turns"] > 1 => Head(reply) \in { "prefix_ack", "llm_prefix" }
    /\ branch \notin { "first_touch", "greeting_menu" } /\ menus > 0 =>
          /\ "prefix_intro" \notin Range(reply)
          /\ \E p \in { "prefix_ack", "llm_prefix" } :
                IsSuffix(<< p, "nl" >> \o FormatNumberedOptions(MenuTopics, 9), reply)

\* the first greeting of a session that came back from an academic detour:
\* the menu carries the introduction although Auto-Return showed a menu
\* before
C16_Witness ==
    /\ branch = "greeting_menu"
    /\ last_action = "greeting_first_menu"
    /\ Head(reply) = "prefix_intro"
    /\ ctx["greet_menu_turns"] = 1
    /\ FlowStage(State) = "done"

\* C16 as stated: a greeting menu that carries the introduction is the first
\* menu of the session, no menu was shown before it
C16_IntroNeverAfterMenu ==
    [][ branch' \in { "first_touch", "greeting_menu" }
        /\ last_action' = "greeting_first_menu"
        => ~Truthy(ctx, "main_menu_shown") ]_vars

\* documents are cached and a prior query is recorded
CachedWithPriorQuery ==
    /\ current_docs # << >>
    /\ last_retrieval_query \notin { NoQuery, << >> }

\* the Retrieval Gate of the call searched: a search was made before the
\* practical strategy was invoked
GateSearched ==
    /\ branch' = "route_practical"
    /\ at_dispatch'[1].searches > 0

\* |intersection| / |union| below 0.22
OverlapBelowThreshold(a, b) ==
    100 * TopicOverlapRatio(a, b)[1] < 22 * TopicOverlapRatio(a, b)[2]

\* C17: with documents cached and a prior query recorded, the gate searches
\* only for an utterance whose token overlap with the prior query is below
\* 0.22 and which carries a legal-signal word.
C17_GateSearchNeedsDomainSignal ==
    [][ CachedWithPriorQuery /\ GateSearched
        => /\ OverlapBelowThreshold(last_retrieval_query, input')
           /\ HasAny(LegalSignals, NormalizeForIntent(input')) ]_vars

\* C18: with documents cached and a prior query recorded, an utterance of at
\* most 3 loose tokens and 18 characters reaches the practical strategy
\* without a search of the gate.
C18_ShortFollowUpReusesDocs ==
    [][ /\ CachedWithPriorQuery
        /\ branch' = "route_practical"
        /\ Cardinality(TokenizeLoose(input')) <= 3
        /\ CharLen(NormalizeForIntent(input')) <= 18
        => ~GateSearched ]_vars

\* C19: under the practical persona an utterance routed to the strategy (its
\* intent a legal question or unknown) passes the gate first: with no
\* documents cached or no prior query, exactly one search is made before
\* the strategy is invoked, with the utterance as query, and the strategy
\* is invoked with the utterance.
C19_GateBeforePracticalStrategy ==
    [][ /\ branch' = "route_practical"
        /\ ~CachedWithPriorQuery
        => /\ Len(strategy') = 1
           /\ strategy'[1].persona = "practical"
           /\ strategy'[1].input = input'
           /\ at_dispatch'[1].searches = 1
           /\ queries'[1] = input' ]_vars

\* _classify_intent labels the utterance of the call a mode-status question
ClassifiedModeStatus ==
    /\ input' # << >>
    /\ ClassifyIntent(State, input', DefaultOracle).intent = "MODE_STATUS"

\* the context keys handle() writes on every call
CallKeys == { "did_greet", "persona_id", "persona_profile" }

\* every other context key is as it was before the call
ContextKept ==
    \A k \in (DOMAIN ctx \cup DOMAIN ctx') \ CallKeys :
        Has(ctx, k) /\ Has(ctx', k) /\ ctx'[k] = ctx[k]

C21_SearchFailureIsNoDocuments ==
    [][ /\ "search" \in faults
        /\ LooksLikeLegalQuestion(NormalizeForIntent(input'))
        => /\ outcome' = "returned"
           /\ current_docs' \in { << >>, current_docs } ]_vars

\* C22: every handle() call ends with a reply, whatever the strategy's model
\* answers: the practical strategy does not go on re-entering itself after
\* "retrieve" decisions within one turn.
C22_HandleReturnsAReply ==
    (turn > 0 /\ "search" \notin faults) => (outcome = "returned" /\ reply # << >>)

\* ---------------------------------------------------------------------------
\* StateManager (state_manager.py): the file of one session, one caller of
\* save() and one caller of load()
\* ---------------------------------------------------------------------------

\* StateManager.__init__: MAX_RECENT_MESSAGES_SAVE, MAX_INTERNAL_MESSAGES_SAVE
DefaultMaxRecent == 18
DefaultMaxInternal == 40

\* save() calls of one run
MaxSaves == 2

\* the session whose file is written and read
Sid == "s1"

\* a history of n entries, each named by its position
History(n) == [ i \in 1..n |-> i ]

\* the last n entries of a list: seq[-n:]
LastN(seq, n) == SubSeq(seq, Len(seq) - n + 1, Len(seq))

\* the states passed to the k-th save(): the fields save() reads or writes,
\* with round telling one call's state from another's.  max_recent_messages
\* is strict_profile["max_recent_messages"], 0 when it is absent or None.
PassedStates(k) ==
    { [ session_id |-> "",
        max_recent_messages |-> m,
        messages |-> History(n),
        internal_messages |-> History(IF n > DefaultMaxRecent
                                      THEN DefaultMaxInternal + 1 ELSE 0),
        round |-> k ] :
      n \in { 1, DefaultMaxRecent, DefaultMaxRecent + 1 }, m \in { 0, 2 } }

\* StateManager._trim_state_for_save
TrimStateForSaveKeepsAll(state) == state
TrimStateForSave(state) ==
    LET max_recent == IF state.max_recent_messages > 0
                      THEN state.max_recent_messages ELSE DefaultMaxRecent
        msgs == IF Len(state.messages) > max_recent
                THEN LastN(state.messages, max_recent) ELSE state.messages
        internal == IF Len(state.internal_messages) > DefaultMaxInternal
                    THEN LastN(state.internal_messages, DefaultMaxInternal)
                    ELSE state.internal_messages
    IN  [state EXCEPT !.messages = msgs, !.internal_messages = internal]

\* save(): payload = state.model_dump() with the _meta entry
Payload(state) == [ fields |-> state, meta |-> [ schema_version |-> "v1" ] ]

\* load(): data.pop("_meta"); ConversationState(**data)
FromPayload(payload) == payload.fields

\* the file save() dumps into: tmp_path, replaced onto path afterwards
DumpTargetIsPath == "path"
DumpTarget == "tmp"

\* a file: << >> when it does not exist, else its content, complete once
\* json.dump has written all of it
NoFile == << >>
OpenedFile == << [ complete |-> FALSE, data |-> << >> ] >>
WrittenFile(payload) == << [ complete |-> TRUE, data |-> << payload >> ] >>

\* what load() gave
Result(kind, state) == [ kind |-> kind, state |-> state ]

EmptyStore ==
    [ path |-> NoFile, tmp |-> NoFile, lock |-> FALSE,
      wpc |-> "idle", wstate |-> << >>, passed |-> << >>, saves |-> 0,
      rpc |-> "idle", loaded |-> Result("none", << >>),
      rsaves |-> 0, ridle |-> TRUE ]

\* the variables of the conversation
session ==
    << persona_id, messages, ctx, current_docs, last_retrieval_query, round,
       last_action, queries, llm, strategy, at_dispatch, menus, outcome,
       faults, turn, input, reply, branch, force_empty >>

InitStore ==
    /\ faults = {}
    /\ call = << >>
    /\ Idle(FreshState("practical", FALSE))
    /\ store = EmptyStore

\* save(): session_id set, the state trimmed, the lock file created
SaveAcquire ==
    /\ store.wpc = "idle"
    /\ Len(store.passed) < MaxSaves
    /\ ~store.lock
    /\ \E state \in PassedStates(Len(store.passed) + 1) :
         store' = [store EXCEPT
                     !.passed = Append(@, state),
                     !.wstate = << TrimStateForSave([state EXCEPT !.session_id = Sid]) >>,
                     !.lock = TRUE,
                     !.wpc = "open"]
    /\ UNCHANGED << session, call >>

\* save(): open(tmp_path, "w")
SaveOpen ==
    /\ store.wpc = "open"
    /\ store' = [store EXCEPT ![DumpTarget] = OpenedFile, !.wpc = "dump"]
    /\ UNCHANGED << session, call >>

\* save(): json.dump(payload, f) and the file closed
SaveDump ==
    /\ store.wpc = "dump"
    /\ store' = [store EXCEPT ![DumpTarget] = WrittenFile(Payload(store.wstate[1])),
                              !.wpc = "replace"]
    /\ UNCHANGED << session, call >>

\* save(): tmp_path.replace(path)
SaveReplace ==
    /\ store.wpc = "replace"
    /\ store' = [store EXCEPT !.path = IF store.tmp # NoFile THEN store.tmp ELSE @,
                              !.tmp = NoFile,
                              !.wpc = "release"]
    /\ UNCHANGED << session, call >>

\* save(): the finally block: tmp_path removed, the lock released
SaveRelease ==
    /\ store.wpc = "release"
    /\ store' = [store EXCEPT !.tmp = NoFile, !.lock = FALSE, !.wstate = << >>,
                              !.saves = @ + 1, !.wpc = "idle"]
    /\ UNCHANGED << session, call >>

\* load(): path.exists()
LoadExists ==
    /\ store.rpc = "idle"
    /\ store' = [store EXCEPT
                   !.rsaves = store.saves,
                   !.ridle = (store.wpc = "idle"),
                   !.rpc = IF store.path = NoFile THEN "done" ELSE "read",
                   !.loaded = IF store.path = NoFile THEN Result("absent", << >>)
                              ELSE Result("none", << >>)]
    /\ UNCHANGED << session, call >>

\* load(): open(path), json.load, ConversationState(**data)
LoadRead ==
    /\ store.rpc = "read"
    /\ store' = [store EXCEPT
                   !.rpc = "done",
                   !.loaded = IF store.path = NoFile \/ ~store.path[1].complete
                              THEN Result("error", << >>)
                              ELSE Result("state", << FromPayload(store.path[1].data[1]) >>)]
    /\ UNCHANGED << session, call >>

\* the caller of load() has its answer and may call again
LoadReturn ==
    /\ store.rpc = "done"
    /\ store' = [store EXCEPT !.rpc = "idle", !.loaded = Result("none", << >>)]
    /\ UNCHANGED << session, call >>

NextStore ==
    \/ SaveAcquire
    \/ SaveOpen
    \/ SaveDump
    \/ SaveReplace
    \/ SaveRelease
    \/ LoadExists
    \/ LoadRead
    \/ LoadReturn

SpecStore == InitStore /\ [][NextStore]_vars

\* the load() that has answered ran from its first step to its last with no
\* save() in progress, after the k-th save() had returned
LoadedAfterSave(k) ==
    /\ store.rpc = "done"
    /\ store.ridle
    /\ store.wpc = "idle"
    /\ store.rsaves = k
    /\ store.saves = k
    /\ k >= 1

Stored(k) == TrimStateForSave([store.passed[k] EXCEPT !.session_id = Sid])

\* C24: with one writer, a load() that has answered, whatever save() steps
\* ran beside it, gave a whole state: the one the last save() finished
\* before the load began had written, or one written by a save() begun
\* since, or absent when no save() had finished before it began; never a
\* partly written file.
C24_LoadSeesWholeState ==
    store.rpc = "done" =>
        \/ /\ store.loaded.kind = "absent"
           /\ store.rsaves = 0
        \/ /\ store.loaded.kind = "state"
           /\ \E k \in 1..Len(store.passed) :
                /\ k >= store.rsaves
                /\ store.loaded.state[1] = Stored(k)

\* a load() that began after the first save() had returned, ran beside the
\* second and gave the second's state before that save() had returned
C24_Witness ==
    /\ store.rpc = "done"
    /\ store.rsaves = 1
    /\ store.wpc = "release"
    /\ Len(store.passed) = 2
    /\ store.loaded.kind = "state"
    /\ store.loaded.state[1].round = 2

C26_PickQuestionIsOneShot ==
    [][ /\ ( /\ Truthy(ctx, "awaiting_persona_pick")
             /\ branch' # "switch_no_target"
             => ~Truthy(ctx', "awaiting_persona_pick") )
        /\ ( Truthy(ctx', "awaiting_persona_confirmation")
             => ~Truthy(ctx', "awaiting_persona_pick") ) ]_vars

\* ---------------------------------------------------------------------------
\* The pending-slot resolver on replies spelled character by character
\* ---------------------------------------------------------------------------

\* characters of a reply; "T" stands for the word ทั้งหมด
MaxReplyLen == 4

DigitVal == ("0" :> 0) @@ ("1" :> 1) @@ ("2" :> 2) @@ ("3" :> 3)
ReplyChars == DOMAIN DigitVal \cup { ",", "-", " ", "T" }

Replies == UNION { [ 1..n -> ReplyChars ] : n \in 1..MaxReplyLen }

\* str.strip()
RECURSIVE StripLeft(_)
StripLeft(t) == IF t # << >> /\ Head(t) = " " THEN StripLeft(Tail(t)) ELSE t
RECURSIVE StripRight(_)
StripRight(t) ==
    IF t # << >> /\ t[Len(t)] = " " THEN StripRight(SubSeq(t, 1, Len(t) - 1)) ELSE t
Strip(t) == StripRight(StripLeft(t))

\* a reply cut into its runs of digits (k = "num", v the digits) and its
\* other characters (k the character)
RECURSIVE Runs(_, _, _)
Runs(t, run, out) ==
    LET flushed == IF run = << >> THEN out ELSE Append(out, [ k |-> "num", v |-> run ])
    IN  IF t = << >> THEN flushed
        ELSE IF Head(t) \in DOMAIN DigitVal
             THEN Runs(Tail(t), Append(run, DigitVal[Head(t)]), out)
             ELSE Runs(Tail(t), << >>, Append(flushed, [ k |-> Head(t), v |-> << >> ]))

\* \s*
RECURSIVE SkipSpaces(_, _)
SkipSpaces(toks, i) ==
    IF i <= Len(toks) /\ toks[i].k = " " THEN SkipSpaces(toks, i + 1) ELSE i

\* _RANGE_RE = (\d+)\s*-\s*(\d+), finditer: the pairs << a, b >> in order
RECURSIVE RangePairs(_, _)
RangePairs(toks, i) ==
    IF i > Len(toks) THEN << >>
    ELSE IF toks[i].k # "num" THEN RangePairs(toks, i + 1)
    ELSE LET d == SkipSpaces(toks, i + 1)
             j == IF d <= Len(toks) /\ toks[d].k = "-" THEN SkipSpaces(toks, d + 1) ELSE 0
         IN  IF j # 0 /\ j <= Len(toks) /\ toks[j].k = "num"
             THEN << << DecimalValue(toks[i].v), DecimalValue(toks[j].v) >> >>
                  \o RangePairs(toks, j + 1)
             ELSE RangePairs(toks, i + 1)

\* list(range(lo, hi + 1))
FromTo(lo, hi) == [ x \in 1..(hi - lo + 1) |-> lo + x - 1 ]

\* _parse_indices: the first loop
RECURSIVE RangeNums(_)
RangeNums(pairs) ==
    IF pairs = << >> THEN << >>
    ELSE LET a == Head(pairs)[1]
             b == Head(pairs)[2]
         IN  (IF a <= 0 \/ b <= 0 THEN << >>
              ELSE IF a <= b THEN FromTo(a, b) ELSE FromTo(b, a))
             \o RangeNums(Tail(pairs))

\* _ANY_NUMBER_RE = \b(\d{1,2})\b, finditer: a run of one or two digits with
\* no letter next to it
RECURSIVE StandaloneNums(_, _)
StandaloneNums(toks, i) ==
    IF i > Len(toks) THEN << >>
    ELSE (IF /\ toks[i].k = "num"
             /\ Len(toks[i].v) <= 2
             /\ (i > 1 => toks[i - 1].k # "T")
             /\ (i < Len(toks) => toks[i + 1].k # "T")
          THEN << DecimalValue(toks[i].v) >> ELSE << >>)
         \o StandaloneNums(toks, i + 1)

\* PersonaSupervisor._parse_indices on a spelled reply
ParseIndicesOf(text) ==
    LET Parse(toks) == Dedupe(RangeNums(RangePairs(toks, 1)) \o StandaloneNums(toks, 1),
                              << >>)
    IN  Parse(Runs(Strip(text), << >>, << >>))

\* the labels of a menu of n options
Options(n) == [ i \in 1..n |-> << "option", i >> ]

\* PersonaSupervisor._map_pending_slot_reply on a spelled reply: the labels
\* chosen (joined by ", ") or the error, with the index lists it used
MapReply(options, allow_multi, user_input) ==
    LET raw == Strip(user_input)
        AllDigits == \A i \in DOMAIN raw : raw[i] \in DOMAIN DigitVal
        R(m, e, idxs, valid) == [ mapped |-> m, err |-> e, idxs |-> idxs, valid |-> valid ]
        InOptions(i) == 1 <= i /\ i <= Len(options)
        Map(idxs, valid) ==
            IF idxs = << >> THEN R(<< >>, "answer_number", idxs, valid)
            ELSE IF valid = << >> THEN R(<< >>, "out_of_range", idxs, valid)
            ELSE IF ~allow_multi THEN R(<< options[valid[1]] >>, "", idxs, valid)
            ELSE R([ i \in DOMAIN valid |-> options[valid[i]] ], "", idxs, valid)
        Indices(idxs) == Map(idxs, SelectSeq(idxs, InOptions))
        Parsed(idxs0) ==
            Indices(IF idxs0 = << >> /\ AllDigits /\ Len(raw) >= 2 /\ Len(options) <= 9
                    THEN [ i \in DOMAIN raw |-> DigitVal[raw[i]] ] ELSE idxs0)
    IN  IF raw = << >> THEN R(<< >>, "", << >>, << >>)
        ELSE IF "T" \in Range(raw)
             THEN IF allow_multi /\ options # << >> THEN R(options, "", << >>, << >>)
                  ELSE R(<< >>, "multi_only", << >>, << >>)
        ELSE Parsed(ParseIndicesOf(raw))

\* menus of few and of many options
OptionCounts == { 2, 10 }

InitResolver ==
    /\ faults = {}
    /\ store = << >>
    /\ Idle(FreshState("practical", FALSE))
    /\ \E n \in OptionCounts, m \in BOOLEAN, r \in Replies :
         call = [ options |-> Options(n), allow_multi |-> m, reply |-> r, result |-> << >> ]

\* _map_pending_slot_reply(pending, user_input)
Resolve ==
    /\ call.result = << >>
    /\ call' = [call EXCEPT !.result = << MapReply(call.options, call.allow_multi, call.reply) >>]
    /\ UNCHANGED << session, store >>

SpecResolver == InitResolver /\ [][Resolve]_vars

\* the resolver has answered
Resolved == call.result # << >>

\* C27: a reply that names more than one valid index on a slot whose
\* allow_multi is false is rejected with a corrective message; no option is
\* chosen.
C27_SeveralIndicesOnSingleSlotRejected ==
    ( /\ Resolved
      /\ ~call.allow_multi
      /\ Cardinality(Range(call.result[1].valid)) >= 2 )
    => ( /\ call.result[1].err # ""
         /\ call.result[1].mapped = << >> )

\* C28: on a menu of at most 9 options a reply made only of two or more
\* digits resolves to the indices its digits spell, one per digit ("12" to 1
\* and 2), not to the number it denotes.
C28_DigitStringSplitsIntoDigits ==
    ( /\ Resolved
      /\ Len(call.options) <= 9
      /\ Len(call.reply) >= 2
      /\ \A i \in DOMAIN call.reply : call.reply[i] \in DOMAIN DigitVal )
    => Dedupe(call.result[1].idxs, << >>)
         = Dedupe([ i \in DOMAIN call.reply |-> DigitVal[call.reply[i]] ], << >>)

\* C29: the index list the resolver uses holds each index once and only
\* indices of 1..len(options), a range a-b of the reply puts every index
\* between a and b into it whichever is larger, and the result is the labels
\* of these indices in order when allow_multi is set, the one label when
\* there is a single valid index.
C29_IndexListIsCleanAndMapped ==
    ( Resolved /\ "T" \notin Range(call.reply) /\ Strip(call.reply) # << >> )
    => LET res == call.result[1]
           n == Len(call.options)
           pairs == RangePairs(Runs(Strip(call.reply), << >>, << >>), 1)
       IN  /\ \A i, j \in DOMAIN res.valid : res.valid[i] = res.valid[j] => i = j
           /\ Range(res.valid) \subseteq 1..n
           /\ Range(res.valid) = Range(res.idxs) \cap 1..n
           /\ \A p \in DOMAIN pairs :
                \A x \in 1..n :
                    ( /\ (pairs[p][1] <= x /\ x <= pairs[p][2])
                         \/ (pairs[p][2] <= x /\ x <= pairs[p][1]) )
                    => x \in Range(res.valid)
           /\ (call.allow_multi /\ res.valid # << >>)
                => res.mapped = [ i \in DOMAIN res.valid |-> call.options[res.valid[i]] ]
           /\ Len(res.valid) = 1 => res.mapped = << call.options[res.valid[1]] >>

\* ---------------------------------------------------------------------------
\* The confirmation reading on the terms of its vocabularies
\* ---------------------------------------------------------------------------

\* replies made of one term of _YES_CORE or _NO_CORE, a lone politeness
\* particle, or a lone digit
ConfirmReplies == YES_CORE \cup NO_CORE \cup FillerOnly \cup { << "d1" >>, << "d2" >> }

InitConfirm ==
    /\ faults = {}
    /\ store = << >>
    /\ Idle(FreshState("practical", FALSE))
    /\ \E r \in ConfirmReplies, a \in ConfirmAnswers :
         call = [ reply |-> r, answer |-> a, result |-> << >> ]

\* _handle_persona_confirmation reading the reply
ReadConfirmation ==
    /\ call.result = << >>
    /\ call' = [call EXCEPT !.result = << ClassifyConfirmation(call.reply, call.answer) >>]
    /\ UNCHANGED << session, store >>

SpecConfirm == InitConfirm /\ [][ReadConfirmation]_vars

\* C30: a confirmation reply that is one term of _YES_CORE is read as yes,
\* one that is one term of _NO_CORE as no, by the deterministic rules alone:
\* the probabilistic classifier is not consulted.
C30_CoreTermsReadDeterministically ==
    call.result # << >> =>
        /\ call.reply \in YES_CORE =>
             /\ call.result[1].yes
             /\ ~call.result[1].no
             /\ ~call.result[1].ask_llm
        /\ call.reply \in NO_CORE =>
             /\ call.result[1].no
             /\ ~call.result[1].yes
             /\ ~call.result[1].ask_llm

\* ---------------------------------------------------------------------------
\* Confirmation replies, replay, menus (Spec)
\* ---------------------------------------------------------------------------

\* the utterance of the call holds a term of _YES_CORE and a term of _NO_CORE
MixedReply ==
    /\ HasAny(YES_CORE, NormalizeConfirmText(input'))
    /\ HasAny(NO_CORE, NormalizeConfirmText(input'))

\* C31: a confirmation reply that holds yes vocabulary and no vocabulary is
\* unclear for that turn whatever the probabilistic classifier answers:
\* persona_id stays and the switch is not applied.
C31_MixedReplyNeverSwitches ==
    [][ /\ branch' = "confirmation"
        /\ Has(ctx, "pending_persona")
        /\ MixedReply
        => /\ persona_id' = persona_id
           /\ Head(reply') # "now_in_mode" ]_vars

\* the entries the call appended to messages
AddedMessages == SubSeq(messages', Len(messages) + 1, Len(messages'))

\* the call answered a confirmation with yes and replayed the queued utterance
ReplayedOnYes ==
    /\ branch' = "confirmation"
    /\ Get(ctx, "pending_replay_user_input", << >>) # << >>
    /\ Head(reply') = "now_in_mode"

\* C32: on a confirmation answered yes with a queued utterance, the utterance
\* is dispatched once through the new persona's strategy, the reply is the
\* mode prefix followed by the strategy's reply, and the turn adds one
\* assistant entry to messages, the combined text.
C32_ReplayAddsOneAssistantEntry ==
    [][ ReplayedOnYes
        => /\ Len(strategy') = 1
           /\ strategy'[1].persona = persona_id'
           /\ strategy'[1].input = ctx["pending_replay_user_input"]
           /\ SubSeq(reply', 1, 4) = << "now_in_mode", persona_id', "laeo_khrap", "nl" >>
           /\ Cardinality({ k \in DOMAIN AddedMessages :
                              AddedMessages[k].role = "assistant" }) = 1
           /\ AddedMessages[Len(AddedMessages)].content = reply' ]_vars

\* the menu shown before the call
LastMenu == Get(ctx, "last_menu_topics", << >>)

\* C33: when the pool holds 5 labels or more outside the preceding menu, the
\* menu a greeting turn shows shares fewer than 4 of its items with the
\* preceding menu: a first composition sharing 4 or more is redrawn from the
\* labels outside it.
C33_ShownMenuLeavesLastMenu ==
    [][ /\ branch' \in { "first_touch", "greeting_menu" }
        /\ Len(LastMenu) = MENU_SIZE
        /\ Has(ctx', "topic_pool")
        /\ Cardinality(Range(PoolLabels(ctx'["topic_pool"])) \ Range(LastMenu)) >= 5
        => Cardinality(Range(ctx'["last_menu_topics"]) \cap Range(LastMenu)) < 4 ]_vars


\* ---------------------------------------------------------------------------
\* The lock file of one session and the processes that call save() and
\* delete() on it (SpecLock)
\* ---------------------------------------------------------------------------

\* the processes that share the state directory
Procs == { "p1", "p2" }

\* the lock file: absent, or present with the pid written into it and its
\* age against STATE_LOCK_STALE_S
NoLock == << >>
LockOf(p) == << [ pid |-> p, stale |-> FALSE ] >>

\* a process outside any call
IdleProc == [ pc |-> "idle", op |-> "none", acquired |-> FALSE ]

EmptyDir ==
    [ lock |-> NoLock, path |-> FALSE, foreign |-> FALSE,
      procs |-> [ p \in Procs |-> IdleProc ] ]

InitLock ==
    /\ faults = {}
    /\ call = << >>
    /\ Idle(FreshState("practical", FALSE))
    /\ store = EmptyDir

\* process p moves to pc, the rest of its record kept
Goto(p, pc) == [store EXCEPT !.procs[p].pc = pc]

\* p removes the lock file, whoever created it
UnlinkLock(d, p) ==
    [d EXCEPT !.lock = NoLock,
              !.foreign = \/ @
                          \/ /\ d.lock # NoLock
                             /\ d.lock[1].pid # p
                             /\ d.procs[d.lock[1].pid].acquired]

\* save(session_id, state) is called: _acquire_lock starts
CallSave(p) ==
    /\ store.procs[p].pc = "idle"
    /\ store' = [store EXCEPT !.procs[p] = [ pc |-> "open", op |-> "save", acquired |-> FALSE ]]
    /\ UNCHANGED << session, call >>

\* delete(session_id) is called: _acquire_lock starts
CallDelete(p) ==
    /\ store.procs[p].pc = "idle"
    /\ store' = [store EXCEPT !.procs[p] = [ pc |-> "open", op |-> "delete", acquired |-> FALSE ]]
    /\ UNCHANGED << session, call >>

\* where the caller of _acquire_lock goes on
AfterAcquire(op) == IF op = "save" THEN "dump" ELSE "unlink_path"

\* _acquire_lock: os.open(lock_path, O_CREAT | O_EXCL | O_WRONLY)
LockOpen(p) ==
    /\ store.procs[p].pc = "open"
    /\ store' = IF store.lock = NoLock
                THEN [store EXCEPT !.lock = LockOf(p),
                                   !.procs[p].acquired = TRUE,
                                   !.procs[p].pc = AfterAcquire(store.procs[p].op)]
                ELSE Goto(p, "stat")
    /\ UNCHANGED << session, call >>

\* _acquire_lock: lock_path.stat() and the age test; a stat() that raises
\* is passed over
LockStat(p) ==
    /\ store.procs[p].pc = "stat"
    /\ store' = IF store.lock # NoLock /\ store.lock[1].stale
                THEN Goto(p, "unlink_stale")
                ELSE Goto(p, "deadline")
    /\ UNCHANGED << session, call >>

\* _acquire_lock: lock_path.unlink(missing_ok=True); continue
LockUnlinkStale(p) ==
    /\ store.procs[p].pc = "unlink_stale"
    /\ store' = [UnlinkLock(store, p) EXCEPT !.procs[p].pc = "open"]
    /\ UNCHANGED << session, call >>

\* _acquire_lock: the deadline test: TimeoutError, or sleep and try again.
\* save() lets the error out; delete() passes over it
LockDeadline(p) ==
    /\ store.procs[p].pc = "deadline"
    /\ \E late \in BOOLEAN :
         store' = IF ~late THEN Goto(p, "open")
                  ELSE IF store.procs[p].op = "save"
                       THEN [store EXCEPT !.procs[p] = IdleProc]
                       ELSE Goto(p, "unlink_path")
    /\ UNCHANGED << session, call >>

\* save(): the payload dumped to tmp_path and tmp_path.replace(path)
SaveWrite(p) ==
    /\ store.procs[p].pc = "dump"
    /\ store' = [store EXCEPT !.path = TRUE, !.procs[p].pc = "release"]
    /\ UNCHANGED << session, call >>

\* delete(): path.unlink() when path.exists()
DeleteUnlinkPath(p) ==
    /\ store.procs[p].pc = "unlink_path"
    /\ store' = [store EXCEPT !.path = FALSE, !.procs[p].pc = "unlink_lock"]
    /\ UNCHANGED << session, call >>

\* delete(): the finally block: lock_path.unlink(missing_ok=True)
DeleteUnlinkLock(p) ==
    /\ store.procs[p].pc = "unlink_lock"
    /\ store' = [UnlinkLock(store, p) EXCEPT !.procs[p].pc = "release"]
    /\ UNCHANGED << session, call >>

\* _release_lock at the end of save() and of delete()
ReleaseLock(p) ==
    /\ store.procs[p].pc = "release"
    /\ store' = [UnlinkLock(store, p) EXCEPT !.procs[p] = IdleProc]
    /\ UNCHANGED << session, call >>

\* the lock file gets older than STATE_LOCK_STALE_S
LockAges ==
    /\ store.lock # NoLock
    /\ ~store.lock[1].stale
    /\ store' = [store EXCEPT !.lock[1].stale = TRUE]
    /\ UNCHANGED << session, call >>

NextLock ==
    \/ \E p \in Procs : CallSave(p)
    \/ \E p \in Procs : CallDelete(p)
    \/ \E p \in Procs : LockOpen(p)
    \/ \E p \in Procs : LockStat(p)
    \/ \E p \in Procs : LockUnlinkStale(p)
    \/ \E p \in Procs : LockDeadline(p)
    \/ \E p \in Procs : SaveWrite(p)
    \/ \E p \in Procs : DeleteUnlinkPath(p)
    \/ \E p \in Procs : DeleteUnlinkLock(p)
    \/ \E p \in Procs : ReleaseLock(p)
    \/ LockAges

SpecLock == InitLock /\ [][NextLock]_vars

\* the processes between a successful _acquire_lock and their _release_lock
LockHolders == { p \in Procs : store.procs[p].acquired }

\* C34: for one session lock file at most one process at a time is between
\* a successful _acquire_lock and its own _release_lock, in every
\* interleaving of save() and delete() calls, stale-lock breaking and
\* acquisition timeouts included, and no process removes a lock file that
\* another process holds.
C34_LockIsExclusive ==
    /\ Cardinality(LockHolders) <= 1
    /\ ~store.foreign

\* ---------------------------------------------------------------------------
\* A new question while a slot is pending (Spec)
\* ---------------------------------------------------------------------------

\* a pending slot is stored and no confirmation, pick or intake lock is in
\* flight
SlotAloneInFlight ==
    /\ HasPendingSlot(State)
    /\ ~IsAcademicIntakeActive(State)
    /\ ~Truthy(ctx, "awaiting_persona_confirmation")
    /\ ~Truthy(ctx, "awaiting_persona_pick")

\* C35: with a pending slot and nothing else in flight, an utterance that is
\* a new legal question, with or without a number in it, is not consumed by
\* the resolver of the pending slot: when it is routed to a persona strategy
\* the retriever is asked, and the query is that utterance.
C35_LegalQuestionBypassesPendingSlot ==
    [][ /\ SlotAloneInFlight
        /\ LooksLikeLegalQuestion(input')
        => /\ branch' # "pending_slot"
           /\ branch' \in { "route_practical", "route_academic" }
                => /\ queries' # << >>
                   /\ queries'[1] = input' ]_vars

\* ---------------------------------------------------------------------------
\* The persona a confirmation is asked for (Spec)
\* ---------------------------------------------------------------------------

\* C36: in every state handle() leaves with awaiting_persona_confirmation
\* set, pending_persona differs from persona_id: no confirmation is asked
\* for a switch to the persona that is active, whether the proposal came
\* from a style request or from a reply to the "which mode" question.
C36_ConfirmationNamesAnotherPersona ==
    /\ turn > 0
    /\ Truthy(ctx, "awaiting_persona_confirmation")
    => /\ Has(ctx, "pending_persona")
       /\ ctx["pending_persona"] # persona_id

\* ---------------------------------------------------------------------------
\* A question after a finished academic intake (Spec)
\* ---------------------------------------------------------------------------

\* the call dispatches to the academic strategy of a session whose earlier
\* intake is done: a legal question, or the utterance replayed by a
\* confirmed switch from practical
AcademicAskedAfterDone ==
    /\ FlowStage(State) = "done"
    /\ strategy' # << >>
    /\ strategy'[1].persona = "academic"
    /\ \/ LooksLikeLegalQuestion(strategy'[1].input)
       \/ /\ branch' = "confirmation"
          /\ persona_id = "practical"
          /\ strategy'[1].input # << >>

\* C37: after one academic intake has completed (stage done) a later
\* dispatch of a new question to the academic strategy starts a new intake
\* (stage awaiting_slots, one search) and does not return the fallback
\* reply; a second confirmed detour from practical to academic does not end
\* in Auto-Return before the strategy has given a new final answer.
C37_NewIntakeAfterDone ==
    [][ AcademicAskedAfterDone
        => /\ FlowStage(State') = "awaiting_slots"
           /\ Len(queries') = 1
           /\ ~IsInfix(<< "acad_fallback" >>, reply')
           /\ persona_id' = "academic" ]_vars

\* ---------------------------------------------------------------------------
\* The topic menu shown and the slot stored (Spec)
\* ---------------------------------------------------------------------------

\* the call composed a topic menu
MenuShown == turn > 0 /\ menus > 0

\* the reply "i" to a menu of MENU_SIZE topics
IndexReply(i) == << << "d1", "d2", "d3", "d4", "d5" >>[i] >>

\* C38: after every turn that shows a topic menu (greeting, noise, thanks or
\* Auto-Return) context.pending_slot has key "topic", allow_multi false and
\* options equal, item by item and in the same order, to the numbered topics
\* of the reply: index i in the next reply selects the i-th topic shown.
C38_SlotOptionsAreTheMenuShown ==
    MenuShown
    => /\ Has(ctx, "pending_slot")
       /\ ctx["pending_slot"].key = "topic"
       /\ ctx["pending_slot"].allow_multi = FALSE
       /\ ctx["pending_slot"].options # << >>
       /\ IsSuffix(FormatNumberedOptions(ctx["pending_slot"].options, 9), reply)
       /\ ExtractNumberedOptions(reply, 9) = ctx["pending_slot"].options
       /\ \A i \in DOMAIN ctx["pending_slot"].options :
             MapPendingSlotReply(ctx["pending_slot"], IndexReply(i)).mapped
                 = << ExtractNumberedOptions(reply, 9)[i] >>

\* a turn that ended in Auto-Return has shown a menu after the answer of the
\* academic strategy
C38_Witness ==
    /\ MenuShown
    /\ last_action = "academic_done_auto_return_to_practical"
    /\ strategy # << >>
    /\ persona_id = "practical"
    /\ Len(ctx["pending_slot"].options) = MENU_SIZE

\* ---------------------------------------------------------------------------
\* Two session identifiers in one state directory (SpecSessions)
\* ---------------------------------------------------------------------------

\* session identifiers: texts of letters, separators and spaces
MaxSidLen == 2
SidChars == { "a", "/", "\\", "_", " " }
SessionIds == UNION { [ 1..n -> SidChars ] : n \in 1..MaxSidLen }

\* StateManager._safe_session_id:
\* session_id.replace("/", "_").replace("\\", "_").strip()
SafeSessionId(session_id) ==
    Strip([ i \in DOMAIN session_id |->
              IF session_id[i] \in { "/", "\\" } THEN "_" ELSE session_id[i] ])

\* _state_path and _lock_path: the file names without their suffix
StatePath(session_id) == SafeSessionId(session_id)
LockPath(session_id) == SafeSessionId(session_id)

\* the states a caller saves
SessionStates == { "x", "y" }

\* two sessions, an empty directory
InitSessions ==
    /\ faults = {}
    /\ store = << >>
    /\ Idle(FreshState("practical", FALSE))
    /\ \E sid1 \in SessionIds, sid2 \in SessionIds :
         /\ sid1 # sid2
         /\ call = [ sid1 |-> sid1, sid2 |-> sid2,
                     files |-> [ f \in { StatePath(sid1), StatePath(sid2) } |-> NoFile ],
                     locks |-> {}, last |-> "none",
                     loaded |-> Result("none", << >>) ]

\* save(session_id, state) by a caller on its own: TimeoutError when another
\* process holds the lock file, else the state with its session_id written
SaveOf(c, session_id, state) ==
    IF LockPath(session_id) \in c.locks THEN c
    ELSE [c EXCEPT !.files[StatePath(session_id)] =
                       << [ session_id |-> session_id, state |-> state ] >>]

\* delete(session_id): the state file and the lock file removed, the lock
\* acquired or not
DeleteOf(c, session_id) ==
    [c EXCEPT !.files[StatePath(session_id)] = NoFile,
              !.locks = @ \ { LockPath(session_id) }]

\* load(session_id): None when there is no file
LoadOf(c, session_id) ==
    IF c.files[StatePath(session_id)] = NoFile THEN Result("absent", << >>)
    ELSE Result("state", c.files[StatePath(session_id)])

\* the caller of the first session saves
SaveFirst ==
    /\ \E state \in SessionStates :
         call' = [SaveOf(call, call.sid1, state) EXCEPT !.last = "save1"]
    /\ UNCHANGED << session, store >>

\* the caller of the first session deletes
DeleteFirst ==
    /\ call' = [DeleteOf(call, call.sid1) EXCEPT !.last = "delete1"]
    /\ UNCHANGED << session, store >>

\* the caller of the second session saves
SaveSecond ==
    /\ \E state \in SessionStates :
         call' = [SaveOf(call, call.sid2, state) EXCEPT !.last = "save2"]
    /\ UNCHANGED << session, store >>

\* a process saving the second session has acquired its lock
LockSecond ==
    /\ LockPath(call.sid2) \notin call.locks
    /\ call' = [call EXCEPT !.locks = @ \cup { LockPath(call.sid2) }, !.last = "lock2"]
    /\ UNCHANGED << session, store >>

\* ... and releases it
UnlockSecond ==
    /\ LockPath(call.sid2) \in call.locks
    /\ call' = [call EXCEPT !.locks = @ \ { LockPath(call.sid2) }, !.last = "unlock2"]
    /\ UNCHANGED << session, store >>

\* the caller of the second session loads
LoadSecond ==
    /\ call' = [call EXCEPT !.loaded = LoadOf(call, call.sid2), !.last = "load2"]
    /\ UNCHANGED << session, store >>

NextSessions ==
    \/ SaveFirst
    \/ DeleteFirst
    \/ SaveSecond
    \/ LockSecond
    \/ UnlockSecond
    \/ LoadSecond

SpecSessions == InitSessions /\ [][NextSessions]_vars

\* C39: two different non-empty session identifiers never share stored
\* state: save(sid1, s) does not change what load(sid2) returns, and
\* delete(sid1) removes neither the state nor the lock of sid2.
C39_SessionsAreSeparate ==
    [][ call'.last \in { "save1", "delete1" }
        => /\ LoadOf(call', call.sid2) = LoadOf(call, call.sid2)
           /\ LockPath(call.sid2) \in call.locks
                => LockPath(call.sid2) \in call'.locks ]_vars

=============================================================================
